---- MODULE Spec2Model ----
(***************************************************************************)
(* YADA: dependency graph compiler and workflow state store.               *)
(*                                                                         *)
(* Task Records (ParsedDP) are compiled by resolve() into a leveled plan   *)
(* (Yadasmith): buildGraph wires the edges and levels the nodes,           *)
(* detectCycles gates the compilation, sortByPriority orders each level.   *)
(* The state module reads, mutates and rewrites the stored plan.           *)
(***************************************************************************)
EXTENDS Integers, Sequences, FiniteSets, TLC

(***************************************************************************)
(* Bounds of the model                                                     *)
(***************************************************************************)
\* longest dependency list of one Task Record
MaxDeps == 2
\* most declared dependencies over all Task Records of one input
MaxEdges == 3
\* most Entries of a plan whose summary is computed
MaxEntries == 40
\* number of calls into the state module
MaxOps == 2
\* dependencies one sub-task declares at most
MaxSubDeps == 2
\* Entries of the large plans whose summary is computed
LargeEntries == 200

(***************************************************************************)
(* Identifiers, strings and their two orders                               *)
(***************************************************************************)
\* identifiers of Task Records (file base names)
Ids == {"a", "B", "c"}
\* an identifier no Task Record has
MissingId == "x"
DepIds == Ids \cup {MissingId}
PriorityValues == {10, 50}
TaskStatus == {"pending", "completed", "in_progress", "skipped"}

\* UTF-16 code units of an identifier
CodeUnits(s) ==
  CASE s = "a" -> <<97>>
    [] s = "B" -> <<66>>
    [] s = "c" -> <<99>>
    [] s = "x" -> <<120>>
    [] s = "e-acute" -> <<233>>
    [] s = "e+acute" -> <<101, 769>>

Min2(x, y) == IF x < y THEN x ELSE y
Max2(x, y) == IF x > y THEN x ELSE y

\* sign of the lexicographic comparison of two integer sequences
RECURSIVE LexCompare(_, _, _)
LexCompare(u, v, i) ==
  IF i > Len(u) /\ i > Len(v) THEN 0
  ELSE IF i > Len(u) THEN -1
  ELSE IF i > Len(v) THEN 1
  ELSE IF u[i] < v[i] THEN -1
  ELSE IF u[i] > v[i] THEN 1
  ELSE LexCompare(u, v, i + 1)

\* plain (code unit) string comparison: a < b, a === b, a > b
PlainCompare(s, t) == LexCompare(CodeUnits(s), CodeUnits(t), 1)

\* collation weights of a code unit: punctuation < digits < letters at the
\* primary level with letters compared without case; lower case before
\* upper case at the tertiary level
PrimaryWeight(cu) ==
  IF cu \in 97..122 THEN cu - 96
  ELSE IF cu \in 65..90 THEN cu - 64
  ELSE IF cu \in 48..57 THEN cu - 58
  ELSE cu - 200
TertiaryWeight(cu) == IF cu \in 65..90 THEN 1 ELSE 0

\* canonical decomposition of a code unit: U+00E9 is e followed by the
\* combining acute accent U+0301
Decompose(cu) == IF cu = 233 THEN <<101, 769>> ELSE <<cu>>

RECURSIVE Normalize(_, _)
\* the canonically decomposed form of a string
Normalize(units, i) ==
  IF i > Len(units) THEN <<>>
  ELSE Decompose(units[i]) \o Normalize(units, i + 1)

\* combining marks weigh nothing at the primary level and differ at the
\* secondary level
IsCombining(cu) == cu \in 768..879
SecondaryWeight(cu) == IF IsCombining(cu) THEN cu - 767 ELSE 0

\* String.prototype.localeCompare: canonically equivalent strings compare
\* equal, then letters, accents and case in this order
localeCompare(s, t) ==
  LET u == Normalize(CodeUnits(s), 1)
      v == Normalize(CodeUnits(t), 1)
      key(q, weight(_)) == [i \in 1..Len(q) |-> weight(q[i])]
      base(q) == SelectSeq(q, LAMBDA cu : ~IsCombining(cu))
      p == LexCompare(key(base(u), PrimaryWeight), key(base(v), PrimaryWeight), 1)
      a == LexCompare(key(u, SecondaryWeight), key(v, SecondaryWeight), 1)
  IN IF p # 0 THEN p
     ELSE IF a # 0 THEN a
     ELSE LexCompare(key(u, TertiaryWeight), key(v, TertiaryWeight), 1)

(***************************************************************************)
(* Task Records                                                            *)
(***************************************************************************)
\* display name of the record defined by file <id>.yada
DisplayName(id) ==
  CASE id = "a" -> "Alpha"
    [] id = "B" -> "Beta"
    [] id = "c" -> "Gamma"
    [] id = "e-acute" -> "Delta"
    [] id = "e+acute" -> "Epsilon"

\* ParsedDP: the fields the graph compiler reads
ParsedDP(id, deps, prio) ==
  [id |-> id, name |-> DisplayName(id), priority |-> prio, dependencies |-> deps]

RECURSIVE SeqsUpTo(_, _)
SeqsUpTo(S, n) ==
  IF n = 0 THEN {<<>>}
  ELSE LET shorter == SeqsUpTo(S, n - 1)
       IN shorter \cup {Append(q, x) : q \in {r \in shorter : Len(r) = n - 1}, x \in S}

\* orders in which a set of distinct records can be supplied
RecordOrders == {q \in SeqsUpTo(Ids, Cardinality(Ids)) :
                   \A i, j \in 1..Len(q) : i # j => q[i] # q[j]}

Range(q) == {q[i] : i \in 1..Len(q)}

RECURSIVE DepListsOver(_, _)
\* dependency lists of the records S that declare at most budget
\* dependencies in all, none more than MaxDeps
DepListsOver(S, budget) ==
  IF S = {} THEN {[x \in {} |-> <<>>]}
  ELSE LET id == CHOOSE x \in S : TRUE
       IN UNION {{(id :> q) @@ rest : rest \in DepListsOver(S \ {id}, budget - Len(q))} :
                   q \in SeqsUpTo(DepIds, Min2(MaxDeps, budget))}

\* records absent from the input carry no data
DepAssignments(present) ==
  {[id \in Ids |-> IF id \in present THEN f[id] ELSE <<>>] :
     f \in DepListsOver(present, MaxEdges)}
PriorityAssignments(present) ==
  {p \in [Ids -> PriorityValues] : \A id \in Ids \ present : p[id] = 10}

VARIABLES
  dps,        \* the Task Records supplied to resolve, in the supplied order
  pc,         \* position of the current resolve() invocation
  graph,      \* Graph returned by buildGraph
  cycleCheck, \* ValidationResult returned by detectCycles
  result,     \* ResolveResult of the current invocation
  prevResult, \* ResolveResult of the previous invocation
  clock,      \* wall clock read by new Date()
  stored,     \* the .yadasmith file of the project root, None when absent
  lastOp,     \* the last call into the state module: its name and argument
  before,     \* the .yadasmith file as it was when lastOp was called
  opResult,   \* what lastOp returned
  edited,     \* the stored statuses were set by hand since the last compile
  procs,      \* the mark commands running as processes, None when there are none
  leveling,   \* the locals of calculateLevels while it runs, None otherwise
  cwd         \* process.cwd(): the project root found from it and its own .yadasmith

storeVars == <<stored, lastOp, before, opResult, edited, procs>>
vars == <<dps, pc, graph, cycleCheck, result, prevResult, clock,
          stored, lastOp, before, opResult, edited, procs, leveling, cwd>>

None == [none |-> TRUE]
\* the process runs in the project root: getProjectRoot returns process.cwd()
InRoot == [projectRoot |-> "cwd", file |-> None]

(***************************************************************************)
(* graph.ts                                                                *)
(***************************************************************************)
\* ids of the supplied records, in Map insertion order
Keys(records) == [i \in 1..Len(records) |-> records[i].id]
KnownIds(records) == {records[i].id : i \in 1..Len(records)}

RECURSIVE FlattenEdges(_, _)
\* (dependent, dependency) pairs in the order buildGraph pushes them
FlattenEdges(records, i) ==
  IF i > Len(records) THEN <<>>
  ELSE LET dp == records[i]
           kept == SelectSeq(dp.dependencies, LAMBDA d : d \in KnownIds(records))
       IN [k \in 1..Len(kept) |-> [from |-> dp.id, to |-> kept[k]]]
          \o FlattenEdges(records, i + 1)

\* Faulty variant of wireEdges: a dependency identifier that resolves to no record is
\* pushed on the dependent's forward edges all the same
wireEdges_KeepUnresolved(records) ==
  LET edges == FlattenEdges(records, 1)
      rec(id) == CHOOSE dp \in Range(records) : dp.id = id
  IN [id \in KnownIds(records) |->
        [id |-> id,
         dp |-> rec(id),
         dependencies |-> rec(id).dependencies,
         dependents |-> LET into == SelectSeq(edges, LAMBDA e : e.to = id)
                        IN [k \in 1..Len(into) |-> into[k].from],
         level |-> 0]]

\* Faulty variant of wireEdges: the backward edges are not recorded
wireEdges_OneWay(records) ==
  LET rec(id) == CHOOSE dp \in Range(records) : dp.id = id
  IN [id \in KnownIds(records) |->
        [id |-> id,
         dp |-> rec(id),
         dependencies |-> SelectSeq(rec(id).dependencies,
                                    LAMBDA d : d \in KnownIds(records)),
         dependents |-> <<>>,
         level |-> 0]]

\* nodes with their edges wired, every level still 0
wireEdges(records) ==
  LET edges == FlattenEdges(records, 1)
      rec(id) == CHOOSE dp \in Range(records) : dp.id = id
  IN [id \in KnownIds(records) |->
        [id |-> id,
         dp |-> rec(id),
         dependencies |-> SelectSeq(rec(id).dependencies,
                                    LAMBDA d : d \in KnownIds(records)),
         dependents |-> LET into == SelectSeq(edges, LAMBDA e : e.to = id)
                        IN [k \in 1..Len(into) |-> into[k].from],
         level |-> 0]]

\* Faulty variant of nextLevel: the level of the first dependency processed wins over
\* a longer path (breadth-first distance instead of longest path)
nextLevel_Shortest(dependentLevel, currentLevel) ==
  IF dependentLevel = 0 THEN currentLevel + 1
  ELSE Min2(dependentLevel, currentLevel + 1)

\* Faulty variant of nextLevel: a dependent sits two levels above its dependency
nextLevel_SkipsOne(dependentLevel, currentLevel) ==
  Max2(dependentLevel, currentLevel + 2)

\* Level is max of dependencies + 1
nextLevel(dependentLevel, currentLevel) == Max2(dependentLevel, currentLevel + 1)

RECURSIVE visitDependents(_, _, _, _)
\* the for loop over currentNode.dependents
visitDependents(st, currentId, dependents, k) ==
  IF k > Len(dependents) THEN st
  ELSE LET dependentId == dependents[k]
           currentDegree == st.inDegree[dependentId] - 1
           lvl == nextLevel(st.nodes[dependentId].level, st.nodes[currentId].level)
           st1 == [inDegree |-> [st.inDegree EXCEPT ![dependentId] = currentDegree],
                   nodes |-> [st.nodes EXCEPT ![dependentId].level = lvl],
                   queue |-> IF currentDegree = 0
                             THEN Append(st.queue, dependentId) ELSE st.queue]
       IN visitDependents(st1, currentId, dependents, k + 1)

RECURSIVE bfsLevels(_)
\* the while loop over the queue
bfsLevels(st) ==
  IF Len(st.queue) = 0 THEN st
  ELSE LET currentId == Head(st.queue)
           st1 == [st EXCEPT !.queue = Tail(st.queue)]
       IN bfsLevels(visitDependents(st1, currentId, st.nodes[currentId].dependents, 1))

\* calculateLevels: the nodes with their levels assigned
calculateLevels(keys, nodes) ==
  LET inDegree == [id \in DOMAIN nodes |-> Len(nodes[id].dependencies)]
      queue == SelectSeq(keys, LAMBDA id : inDegree[id] = 0)
      seeded == [id \in DOMAIN nodes |->
                   IF inDegree[id] = 0 THEN [nodes[id] EXCEPT !.level = 1]
                   ELSE nodes[id]]
  IN bfsLevels([inDegree |-> inDegree, nodes |-> seeded, queue |-> queue]).nodes

\* the level -> node ids map
groupLevels(keys, nodes) ==
  [l \in {nodes[id].level : id \in DOMAIN nodes} |->
     SelectSeq(keys, LAMBDA id : nodes[id].level = l)]

buildGraph(records) ==
  LET keys == Keys(records)
      nodes == calculateLevels(keys, wireEdges(records))
  IN [keys |-> keys, nodes |-> nodes, levels |-> groupLevels(keys, nodes)]

\* Faulty variant of IndexOf: the slice starts at the head of the path
IndexOf_First(q, x) == 1

IndexOf(q, x) == CHOOSE i \in 1..Len(q) : q[i] = x /\ \A j \in 1..(i - 1) : q[j] # x

RECURSIVE dfs(_, _, _), dfsDeps(_, _, _, _)
\* dfs(nodeId): st carries visited, recursionStack, path, the result; found
\* is the value returned
dfs(g, nodeId, st) ==
  IF nodeId \in st.recursionStack
  THEN LET cycleStart == IndexOf(st.path, nodeId)
           cycle == SubSeq(st.path, cycleStart, Len(st.path)) \o <<nodeId>>
       IN [st EXCEPT !.errors = Append(@, [kind |-> "cycle", chain |-> cycle]),
                     !.valid = FALSE, !.found = TRUE]
  ELSE IF nodeId \in st.visited THEN [st EXCEPT !.found = FALSE]
  ELSE LET st1 == [st EXCEPT !.visited = @ \cup {nodeId},
                             !.recursionStack = @ \cup {nodeId},
                             !.path = Append(@, nodeId)]
           st2 == IF nodeId \in DOMAIN g.nodes
                  THEN dfsDeps(g, g.nodes[nodeId].dependencies, 1, st1)
                  ELSE [st1 EXCEPT !.found = FALSE]
       IN IF st2.found THEN st2
          ELSE [st2 EXCEPT !.path = SubSeq(@, 1, Len(@) - 1),
                           !.recursionStack = @ \ {nodeId},
                           !.found = FALSE]
dfsDeps(g, deps, k, st) ==
  IF k > Len(deps) THEN [st EXCEPT !.found = FALSE]
  ELSE LET st1 == dfs(g, deps[k], st)
       IN IF st1.found THEN st1 ELSE dfsDeps(g, deps, k + 1, st1)

RECURSIVE dfsRoots_NoBreak(_, _, _)
\* Faulty variant of dfsRoots: the loop goes on after a cycle was found
dfsRoots_NoBreak(g, k, st) ==
  IF k > Len(g.keys) THEN st
  ELSE IF g.keys[k] \notin st.visited
  THEN dfsRoots_NoBreak(g, k + 1, dfs(g, g.keys[k], st))
  ELSE dfsRoots_NoBreak(g, k + 1, st)

RECURSIVE dfsRoots(_, _, _)
\* the loop over graph.nodes.keys()
dfsRoots(g, k, st) ==
  IF k > Len(g.keys) THEN st
  ELSE IF g.keys[k] \notin st.visited
  THEN LET st1 == dfs(g, g.keys[k], st)
       IN IF st1.found THEN st1 ELSE dfsRoots(g, k + 1, st1)
  ELSE dfsRoots(g, k + 1, st)

\* Faulty variant of detectCycles: the traversal starts from the first node only
detectCycles_FirstRootOnly(g) ==
  LET st == dfs(g, g.keys[1], [visited |-> {}, recursionStack |-> {}, path |-> <<>>,
                               valid |-> TRUE, errors |-> <<>>, found |-> FALSE])
  IN [valid |-> st.valid, errors |-> st.errors, warnings |-> <<>>]

detectCycles(g) ==
  LET st == dfsRoots(g, 1, [visited |-> {}, recursionStack |-> {}, path |-> <<>>,
                            valid |-> TRUE, errors |-> <<>>, found |-> FALSE])
  IN [valid |-> st.valid, errors |-> st.errors, warnings |-> <<>>]

RECURSIVE SortedNumbers(_)
SortedNumbers(S) ==
  IF S = {} THEN <<>>
  ELSE LET m == CHOOSE x \in S : \A y \in S : x <= y
       IN <<m>> \o SortedNumbers(S \ {m})

\* Faulty variant of getSortedLevels: the comparator is b - a
getSortedLevels_Descending(g) ==
  LET asc == SortedNumbers(DOMAIN g.levels)
  IN [i \in 1..Len(asc) |-> asc[Len(asc) + 1 - i]]

getSortedLevels(g) == SortedNumbers(DOMAIN g.levels)

(***************************************************************************)
(* resolver.ts                                                             *)
(***************************************************************************)
createEmptyYadasmith(now) ==
  [version |-> "1.0.0", compiledAt |-> now, levels |-> <<>>]

\* Faulty variant of comparePriority: equal priorities compare equal
comparePriority_NoTieBreak(a, b, priorityMap) ==
  LET priorityA == IF a.id \in DOMAIN priorityMap THEN priorityMap[a.id] ELSE 0
      priorityB == IF b.id \in DOMAIN priorityMap THEN priorityMap[b.id] ELSE 0
  IN priorityB - priorityA

\* the comparator of sortByPriority: negative when a sorts before b
comparePriority(a, b, priorityMap) ==
  LET priorityA == IF a.id \in DOMAIN priorityMap THEN priorityMap[a.id] ELSE 0
      priorityB == IF b.id \in DOMAIN priorityMap THEN priorityMap[b.id] ELSE 0
  IN IF priorityB # priorityA THEN priorityB - priorityA
     ELSE localeCompare(a.id, b.id)

RECURSIVE InsertSorted(_, _, _)
\* e placed after every element of the sorted q that does not sort after it
InsertSorted(q, e, priorityMap) ==
  IF q = <<>> THEN <<e>>
  ELSE IF comparePriority(Head(q), e, priorityMap) <= 0
  THEN <<Head(q)>> \o InsertSorted(Tail(q), e, priorityMap)
  ELSE <<e>> \o q

RECURSIVE StableSort(_, _, _)
\* Array.prototype.sort (stable) under comparePriority
StableSort(q, k, priorityMap) ==
  IF k = 0 THEN <<>>
  ELSE InsertSorted(StableSort(q, k - 1, priorityMap), q[k], priorityMap)

sortByPriority(yadasmith, records) ==
  LET priorityMap == [id \in KnownIds(records) |->
                        (CHOOSE dp \in Range(records) : dp.id = id).priority]
  IN [yadasmith EXCEPT !.levels =
        [i \in 1..Len(yadasmith.levels) |->
           [yadasmith.levels[i] EXCEPT
              !.dps = StableSort(@, Len(@), priorityMap)]]]

\* the Yadasmith levels built from graph.levels
buildYadasmithLevels(g) ==
  LET levels == getSortedLevels(g)
  IN [i \in 1..Len(levels) |->
        LET levelNum == levels[i]
            levelNodes == g.levels[levelNum]
            present == SelectSeq(levelNodes, LAMBDA nodeId : nodeId \in DOMAIN g.nodes)
        IN [level |-> levelNum,
            dps |-> [k \in 1..Len(present) |->
                       [ref |-> g.nodes[present[k]].dp.name,
                        id |-> present[k],
                        status |-> "pending",
                        level |-> levelNum]]]]

\* getFlatTaskOrder
RECURSIVE FlattenLevels(_, _)
FlattenLevels(levels, i) ==
  IF i > Len(levels) THEN <<>>
  ELSE levels[i].dps \o FlattenLevels(levels, i + 1)
getFlatTaskOrder(yadasmith) ==
  LET entries == FlattenLevels(yadasmith.levels, 1)
  IN [k \in 1..Len(entries) |-> entries[k].id]

(***************************************************************************)
(* resolve(), one call after the other                                     *)
(***************************************************************************)
Init ==
  /\ \E order \in RecordOrders :
       \E d \in DepAssignments(Range(order)), p \in PriorityAssignments(Range(order)) :
         dps = [i \in 1..Len(order) |-> ParsedDP(order[i], d[order[i]], p[order[i]])]
  /\ pc = "idle"
  /\ graph = None
  /\ cycleCheck = None
  /\ result = None
  /\ prevResult = None
  /\ clock = 1
  /\ stored = None
  /\ lastOp = None
  /\ before = None
  /\ opResult = None
  /\ edited = FALSE
  /\ procs = None
  /\ leveling = None
  /\ cwd = InRoot

\* resolve is entered: the empty result, and the early return on no records
ResolveStart ==
  /\ pc = "idle"
  /\ \/ /\ Len(dps) = 0
        /\ result' = [yadasmith |-> createEmptyYadasmith(clock), errors |-> <<>>,
                      warnings |-> <<"No DPs found to compile">>]
        /\ pc' = "returned"
     \/ /\ Len(dps) # 0
        /\ result' = [yadasmith |-> createEmptyYadasmith(clock), errors |-> <<>>,
                      warnings |-> <<>>]
        /\ pc' = "build"
  /\ UNCHANGED <<dps, graph, cycleCheck, prevResult, clock, storeVars, leveling, cwd>>

ResolveBuildGraph ==
  /\ pc = "build"
  /\ graph' = buildGraph(dps)
  /\ pc' = "check"
  /\ UNCHANGED <<dps, cycleCheck, result, prevResult, clock, storeVars, leveling, cwd>>

\* Faulty variant of ResolveDetectCycles: the errors of the check are not copied
ResolveDetectCycles_DropsErrors ==
  /\ pc = "check"
  /\ cycleCheck' = detectCycles(graph)
  /\ \/ /\ ~cycleCheck'.valid
        /\ result' = result
        /\ pc' = "returned"
     \/ /\ cycleCheck'.valid
        /\ result' = result
        /\ pc' = "levels"
  /\ UNCHANGED <<dps, graph, prevResult, clock, storeVars, leveling, cwd>>

\* Faulty variant of ResolveDetectCycles: a failed check does not return
ResolveDetectCycles_NoReturn ==
  /\ pc = "check"
  /\ cycleCheck' = detectCycles(graph)
  /\ result' = [result EXCEPT !.errors = @ \o cycleCheck'.errors]
  /\ pc' = "levels"
  /\ UNCHANGED <<dps, graph, prevResult, clock, storeVars, leveling, cwd>>

ResolveDetectCycles ==
  /\ pc = "check"
  /\ cycleCheck' = detectCycles(graph)
  /\ \/ /\ ~cycleCheck'.valid
        /\ result' = [result EXCEPT !.errors = @ \o cycleCheck'.errors]
        /\ pc' = "returned"
     \/ /\ cycleCheck'.valid
        /\ result' = result
        /\ pc' = "levels"
  /\ UNCHANGED <<dps, graph, prevResult, clock, storeVars, leveling, cwd>>

\* Faulty variant of ResolveCompile: the list of Levels outlives the call and the
\* next call appends to it
ResolveCompile_KeepsPreviousLevels ==
  /\ pc = "levels"
  /\ result' = [result EXCEPT !.yadasmith =
        sortByPriority([version |-> "1.0.0", compiledAt |-> clock,
                        levels |-> (IF prevResult = None THEN <<>>
                                    ELSE prevResult.yadasmith.levels)
                                   \o buildYadasmithLevels(graph)], dps)]
  /\ pc' = "returned"
  /\ UNCHANGED <<dps, graph, cycleCheck, prevResult, clock, storeVars, leveling, cwd>>

ResolveCompile ==
  /\ pc = "levels"
  /\ result' = [result EXCEPT !.yadasmith =
        sortByPriority([version |-> "1.0.0", compiledAt |-> clock,
                        levels |-> buildYadasmithLevels(graph)], dps)]
  /\ pc' = "returned"
  /\ UNCHANGED <<dps, graph, cycleCheck, prevResult, clock, storeVars, leveling, cwd>>

\* the same records are compiled again, later
ResolveAgain ==
  /\ pc = "returned"
  /\ prevResult = None
  /\ prevResult' = result
  /\ clock' = clock + 1
  /\ pc' = "idle"
  /\ graph' = None
  /\ cycleCheck' = None
  /\ result' = None
  /\ UNCHANGED <<dps, storeVars, leveling, cwd>>

Next ==
  \/ ResolveStart
  \/ ResolveBuildGraph
  \/ ResolveDetectCycles
  \/ ResolveCompile
  \/ ResolveAgain

Spec == Init /\ [][Next]_vars

\* resolve up to the return of buildGraph
NextGraph ==
  \/ ResolveStart
  \/ ResolveBuildGraph

SpecGraph == Init /\ [][NextGraph]_vars

\* resolve up to the return of detectCycles
NextCycles ==
  \/ ResolveStart
  \/ ResolveBuildGraph
  \/ ResolveDetectCycles

SpecCycles == Init /\ [][NextCycles]_vars

\* resolve as one call: what the four steps above return
resolve(records, now) ==
  IF Len(records) = 0
  THEN [yadasmith |-> createEmptyYadasmith(now), errors |-> <<>>,
        warnings |-> <<"No DPs found to compile">>]
  ELSE LET g == buildGraph(records)
           check == detectCycles(g)
       IN IF ~check.valid
          THEN [yadasmith |-> createEmptyYadasmith(now), errors |-> check.errors,
                warnings |-> <<>>]
          ELSE [yadasmith |-> sortByPriority([version |-> "1.0.0", compiledAt |-> now,
                                              levels |-> buildYadasmithLevels(g)],
                                             records),
                errors |-> <<>>, warnings |-> <<>>]

(***************************************************************************)
(* state.ts: the stored plan                                               *)
(***************************************************************************)
\* yaml.dump: the document, every scalar a node with its resolved type
yamlDump(yadasmith) ==
  [version |-> [str |-> yadasmith.version],
   compiledAt |-> [str |-> yadasmith.compiledAt],
   levels |-> [i \in 1..Len(yadasmith.levels) |->
     [level |-> [int |-> yadasmith.levels[i].level],
      dps |-> [k \in 1..Len(yadasmith.levels[i].dps) |->
        LET e == yadasmith.levels[i].dps[k]
        IN [ref |-> [str |-> e.ref], id |-> [str |-> e.id],
            status |-> [str |-> e.status], level |-> [int |-> e.level]]]]]]

\* Faulty variant of yamlLoad: every Entry is read back as pending
yamlLoad_DefaultsStatus(doc) ==
  [version |-> doc.version.str,
   compiledAt |-> doc.compiledAt.str,
   levels |-> [i \in 1..Len(doc.levels) |->
     [level |-> doc.levels[i].level.int,
      dps |-> [k \in 1..Len(doc.levels[i].dps) |->
        LET n == doc.levels[i].dps[k]
        IN [ref |-> n.ref.str, id |-> n.id.str,
            status |-> "pending", level |-> n.level.int]]]]]

\* yaml.load: the value the document denotes
yamlLoad(doc) ==
  [version |-> doc.version.str,
   compiledAt |-> doc.compiledAt.str,
   levels |-> [i \in 1..Len(doc.levels) |->
     [level |-> doc.levels[i].level.int,
      dps |-> [k \in 1..Len(doc.levels[i].dps) |->
        LET n == doc.levels[i].dps[k]
        IN [ref |-> n.ref.str, id |-> n.id.str,
            status |-> n.status.str, level |-> n.level.int]]]]]

\* null when the file does not exist
readYadasmith(file) == IF file = None THEN None ELSE yamlLoad(file.content)

\* the file after the write
writeYadasmith(yadasmith) == [content |-> yamlDump(yadasmith)]

hasYadasmith(file) == file # None

\* findTask: <<level index, entry index>> of the first Entry with the id,
\* None when there is none
findTask(yadasmith, taskId) ==
  LET hits == {<<i, k>> \in (1..Len(yadasmith.levels)) \X (1..3) :
                 /\ k <= Len(yadasmith.levels[i].dps)
                 /\ yadasmith.levels[i].dps[k].id = taskId}
  IN IF hits = {} THEN None
     ELSE CHOOSE h \in hits :
            \A g \in hits : h[1] < g[1] \/ (h[1] = g[1] /\ h[2] <= g[2])

getTaskById(yadasmith, id) ==
  LET at == findTask(yadasmith, id)
  IN IF at = None THEN None ELSE yadasmith.levels[at[1]].dps[at[2]]

okResult == [valid |-> TRUE, errors |-> <<>>, warnings |-> <<>>]
missingFileError == "No .yadasmith file found. Run \"yada compile\" first."

RECURSIVE markEntries_NoRevert(_, _, _, _)
\* Faulty variant of markEntries: Entries after the target are left alone
markEntries_NoRevert(entries, k, foundTarget, targetId) ==
  IF k > Len(entries) THEN [dps |-> entries, foundTarget |-> foundTarget]
  ELSE IF foundTarget
  THEN markEntries_NoRevert(entries, k + 1, TRUE, targetId)
  ELSE markEntries_NoRevert([entries EXCEPT ![k].status = "completed"],
                            k + 1, entries[k].id = targetId, targetId)

RECURSIVE markEntries_OnlyTarget(_, _, _, _)
\* Faulty variant of markEntries: the Entries before the target are left alone
markEntries_OnlyTarget(entries, k, foundTarget, targetId) ==
  IF k > Len(entries) THEN [dps |-> entries, foundTarget |-> foundTarget]
  ELSE IF foundTarget
  THEN markEntries_OnlyTarget(IF entries[k].status = "completed"
                              THEN [entries EXCEPT ![k].status = "pending"]
                              ELSE entries,
                              k + 1, TRUE, targetId)
  ELSE markEntries_OnlyTarget(IF entries[k].id = targetId
                              THEN [entries EXCEPT ![k].status = "completed"]
                              ELSE entries,
                              k + 1, entries[k].id = targetId, targetId)

RECURSIVE markEntries(_, _, _, _)
\* the inner loop of markUntil over one Level
markEntries(entries, k, foundTarget, targetId) ==
  IF k > Len(entries) THEN [dps |-> entries, foundTarget |-> foundTarget]
  ELSE IF foundTarget
  THEN markEntries(IF entries[k].status = "completed"
                   THEN [entries EXCEPT ![k].status = "pending"] ELSE entries,
                   k + 1, TRUE, targetId)
  ELSE markEntries([entries EXCEPT ![k].status = "completed"],
                   k + 1, entries[k].id = targetId, targetId)

RECURSIVE markLevels_DropsLaterLevels(_, _, _, _)
\* Faulty variant of markLevels: the Levels after the target's are not kept
markLevels_DropsLaterLevels(levels, i, foundTarget, targetId) ==
  IF i > Len(levels) THEN levels
  ELSE IF foundTarget THEN SubSeq(levels, 1, i - 1)
  ELSE LET r == markEntries(levels[i].dps, 1, foundTarget, targetId)
       IN markLevels_DropsLaterLevels([levels EXCEPT ![i].dps = r.dps], i + 1,
                                      r.foundTarget, targetId)

RECURSIVE markLevels(_, _, _, _)
\* the outer loop of markUntil over the Levels
markLevels(levels, i, foundTarget, targetId) ==
  IF i > Len(levels) THEN levels
  ELSE LET r == markEntries(levels[i].dps, 1, foundTarget, targetId)
       IN markLevels([levels EXCEPT ![i].dps = r.dps], i + 1, r.foundTarget, targetId)

\* Faulty variant of markUntil: the timestamp is rewritten before the lookup
markUntil_TouchesOnMiss(file, targetId, now) ==
  LET yadasmith == readYadasmith(file)
  IN IF yadasmith = None
     THEN [file |-> file,
           result |-> [valid |-> FALSE, errors |-> <<missingFileError>>,
                       warnings |-> <<>>]]
     ELSE IF findTask(yadasmith, targetId) = None
     THEN [file |-> writeYadasmith([yadasmith EXCEPT !.compiledAt = now]),
           result |-> [valid |-> FALSE,
                       errors |-> <<[kind |-> "Task not found", id |-> targetId]>>,
                       warnings |-> <<>>]]
     ELSE [file |-> writeYadasmith(
                      [yadasmith EXCEPT
                         !.levels = markLevels(yadasmith.levels, 1, FALSE, targetId),
                         !.compiledAt = now]),
           result |-> okResult]

\* markUntil: the file afterwards and the result returned
markUntil(file, targetId, now) ==
  LET yadasmith == readYadasmith(file)
  IN IF yadasmith = None
     THEN [file |-> file,
           result |-> [valid |-> FALSE, errors |-> <<missingFileError>>,
                       warnings |-> <<>>]]
     ELSE IF findTask(yadasmith, targetId) = None
     THEN [file |-> file,
           result |-> [valid |-> FALSE,
                       errors |-> <<[kind |-> "Task not found", id |-> targetId]>>,
                       warnings |-> <<>>]]
     ELSE [file |-> writeYadasmith(
                      [yadasmith EXCEPT
                         !.levels = markLevels(yadasmith.levels, 1, FALSE, targetId),
                         !.compiledAt = now]),
           result |-> okResult]

\* Faulty variant of markOne: it marks through the target
markOne_Through(file, taskId, now) == markUntil(file, taskId, now)

\* Faulty variant of markOne: the Entry is set to in_progress
markOne_SetsInProgress(file, taskId, now) ==
  LET yadasmith == readYadasmith(file)
  IN IF yadasmith = None
     THEN [file |-> file,
           result |-> [valid |-> FALSE, errors |-> <<missingFileError>>,
                       warnings |-> <<>>]]
     ELSE LET task == findTask(yadasmith, taskId)
          IN IF task = None
             THEN [file |-> file,
                   result |-> [valid |-> FALSE,
                               errors |-> <<[kind |-> "Task not found", id |-> taskId]>>,
                               warnings |-> <<>>]]
             ELSE [file |-> writeYadasmith(
                      [yadasmith EXCEPT
                         !.levels[task[1]].dps[task[2]].status = "in_progress",
                         !.compiledAt = now]),
                   result |-> okResult]

\* Faulty variant of markOne: completed Entries after the target are reverted
markOne_RevertsLater(file, taskId, now) ==
  LET yadasmith == readYadasmith(file)
  IN IF yadasmith = None
     THEN [file |-> file,
           result |-> [valid |-> FALSE, errors |-> <<missingFileError>>,
                       warnings |-> <<>>]]
     ELSE LET task == findTask(yadasmith, taskId)
          IN IF task = None
             THEN [file |-> file,
                   result |-> [valid |-> FALSE,
                               errors |-> <<[kind |-> "Task not found", id |-> taskId]>>,
                               warnings |-> <<>>]]
             ELSE [file |-> writeYadasmith(
                      [yadasmith EXCEPT
                         !.levels = markLevels(
                            [yadasmith.levels EXCEPT
                               ![task[1]].dps[task[2]].status = "completed"],
                            task[1] + 1, TRUE, taskId),
                         !.compiledAt = now]),
                   result |-> okResult]

\* Faulty variant of markOne: an Entry that is already completed goes back to
\* pending
markOne_Toggles(file, taskId, now) ==
  LET yadasmith == readYadasmith(file)
  IN IF yadasmith = None
     THEN [file |-> file,
           result |-> [valid |-> FALSE, errors |-> <<missingFileError>>,
                       warnings |-> <<>>]]
     ELSE LET task == findTask(yadasmith, taskId)
          IN IF task = None
             THEN [file |-> file,
                   result |-> [valid |-> FALSE,
                               errors |-> <<[kind |-> "Task not found", id |-> taskId]>>,
                               warnings |-> <<>>]]
             ELSE [file |-> writeYadasmith(
                      [yadasmith EXCEPT
                         !.levels[task[1]].dps[task[2]].status =
                            IF @ = "completed" THEN "pending" ELSE "completed",
                         !.compiledAt = now]),
                   result |-> okResult]

\* markOne: the file afterwards and the result returned
markOne(file, taskId, now) ==
  LET yadasmith == readYadasmith(file)
  IN IF yadasmith = None
     THEN [file |-> file,
           result |-> [valid |-> FALSE, errors |-> <<missingFileError>>,
                       warnings |-> <<>>]]
     ELSE LET task == findTask(yadasmith, taskId)
          IN IF task = None
             THEN [file |-> file,
                   result |-> [valid |-> FALSE,
                               errors |-> <<[kind |-> "Task not found", id |-> taskId]>>,
                               warnings |-> <<>>]]
             ELSE [file |-> writeYadasmith(
                      [yadasmith EXCEPT
                         !.levels[task[1]].dps[task[2]].status = "completed",
                         !.compiledAt = now]),
                   result |-> okResult]

\* Faulty variant of resetAll: with no file it writes an empty plan
resetAll_CreatesEmptyPlan(file, now) ==
  LET yadasmith == readYadasmith(file)
  IN IF yadasmith = None
     THEN [file |-> writeYadasmith(createEmptyYadasmith(now)),
           result |-> [valid |-> TRUE, errors |-> <<>>,
                       warnings |-> <<"No .yadasmith file found. Nothing to reset.">>]]
     ELSE [file |-> writeYadasmith(
                      [yadasmith EXCEPT
                         !.levels = [i \in 1..Len(yadasmith.levels) |->
                           [yadasmith.levels[i] EXCEPT !.dps =
                              [k \in 1..Len(yadasmith.levels[i].dps) |->
                                 IF yadasmith.levels[i].dps[k].status = "completed"
                                 THEN [yadasmith.levels[i].dps[k] EXCEPT
                                         !.status = "pending"]
                                 ELSE yadasmith.levels[i].dps[k]]]],
                         !.compiledAt = now]),
           result |-> okResult]

\* Faulty variant of resetAll: every Entry is set to pending
resetAll_AllToPending(file, now) ==
  LET yadasmith == readYadasmith(file)
  IN IF yadasmith = None
     THEN [file |-> file,
           result |-> [valid |-> TRUE, errors |-> <<>>,
                       warnings |-> <<"No .yadasmith file found. Nothing to reset.">>]]
     ELSE [file |-> writeYadasmith(
                      [yadasmith EXCEPT
                         !.levels = [i \in 1..Len(yadasmith.levels) |->
                           [yadasmith.levels[i] EXCEPT !.dps =
                              [k \in 1..Len(yadasmith.levels[i].dps) |->
                                 [yadasmith.levels[i].dps[k] EXCEPT
                                    !.status = "pending"]]]],
                         !.compiledAt = now]),
           result |-> okResult]

\* resetAll: the file afterwards and the result returned
resetAll(file, now) ==
  LET yadasmith == readYadasmith(file)
  IN IF yadasmith = None
     THEN [file |-> file,
           result |-> [valid |-> TRUE, errors |-> <<>>,
                       warnings |-> <<"No .yadasmith file found. Nothing to reset.">>]]
     ELSE [file |-> writeYadasmith(
                      [yadasmith EXCEPT
                         !.levels = [i \in 1..Len(yadasmith.levels) |->
                           [yadasmith.levels[i] EXCEPT !.dps =
                              [k \in 1..Len(yadasmith.levels[i].dps) |->
                                 IF yadasmith.levels[i].dps[k].status = "completed"
                                 THEN [yadasmith.levels[i].dps[k] EXCEPT
                                         !.status = "pending"]
                                 ELSE yadasmith.levels[i].dps[k]]]],
                         !.compiledAt = now]),
           result |-> okResult]

(***************************************************************************)
(* IEEE 754 double arithmetic of getStatus's percentage                    *)
(* A positive double is [bits, exp]: bits the 53-bit significand, most     *)
(* significant bit first and set, the value being bits * 2^exp.            *)
(***************************************************************************)
SignificandBits == 53

\* the double 0
Zero == [bits |-> <<>>, exp |-> 0]

RECURSIVE BitsValue(_, _)
\* the number a short bit sequence denotes
BitsValue(bits, n) ==
  IF n = 0 THEN 0 ELSE 2 * BitsValue(bits, n - 1) + bits[n]

RECURSIVE BitsOf(_)
\* the bits of a natural number, none for 0
BitsOf(n) == IF n = 0 THEN <<>> ELSE Append(BitsOf(n \div 2), n % 2)

RECURSIVE AddOne(_, _)
\* bits + 1, dropping the carry out of the first bit
AddOne(bits, i) ==
  IF i = 0 THEN bits
  ELSE IF bits[i] = 0 THEN [bits EXCEPT ![i] = 1]
  ELSE AddOne([bits EXCEPT ![i] = 0], i - 1)

\* round to nearest, ties to even: discarded is "less", "half" or "more"
\* according to how the discarded part compares with half a unit in the
\* last place
roundToNearestEven(bits, exp, discarded) ==
  IF discarded = "more" \/ (discarded = "half" /\ bits[Len(bits)] = 1)
  THEN IF \A i \in 1..Len(bits) : bits[i] = 1
       THEN [bits |-> [i \in 1..Len(bits) |-> IF i = 1 THEN 1 ELSE 0],
             exp |-> exp + 1]
       ELSE [bits |-> AddOne(bits, Len(bits)), exp |-> exp]
  ELSE [bits |-> bits, exp |-> exp]

RECURSIVE quotientBits(_, _, _, _)
\* long division of r / t (r < t): the first 53 significant bits, their
\* exponent and the remainder left over
quotientBits(r, t, bits, pos) ==
  IF Len(bits) = SignificandBits THEN [bits |-> bits, exp |-> 0 - pos, rem |-> r]
  ELSE IF 2 * r >= t
  THEN quotientBits(2 * r - t, t, Append(bits, 1), pos + 1)
  ELSE quotientBits(2 * r, t, IF bits = <<>> THEN <<>> ELSE Append(bits, 0), pos + 1)

\* completed / total for 0 <= completed <= total, total > 0
divide(completed, total) ==
  IF completed = 0 THEN Zero
  ELSE IF completed = total
  THEN [bits |-> [i \in 1..SignificandBits |-> IF i = 1 THEN 1 ELSE 0],
        exp |-> 1 - SignificandBits]
  ELSE LET q == quotientBits(completed, total, <<>>, 0)
       IN roundToNearestEven(q.bits, q.exp,
            IF 2 * q.rem > total THEN "more"
            ELSE IF 2 * q.rem = total THEN "half" ELSE "less")

RECURSIVE timesBits(_, _, _, _, _)
\* bits * k for a small natural k, as an exact bit sequence
timesBits(bits, i, k, carry, out) ==
  IF i = 0 THEN BitsOf(carry) \o out
  ELSE timesBits(bits, i - 1, k, (bits[i] * k + carry) \div 2,
                 <<(bits[i] * k + carry) % 2>> \o out)

\* x * k for a small natural k
multiply(x, k) ==
  IF x = Zero THEN Zero
  ELSE LET product == timesBits(x.bits, Len(x.bits), k, 0, <<>>)
           extra == Len(product) - SignificandBits
           dropped == SubSeq(product, SignificandBits + 1, Len(product))
       IN roundToNearestEven(SubSeq(product, 1, SignificandBits), x.exp + extra,
            IF extra = 0 \/ dropped[1] = 0 THEN "less"
            ELSE IF \A i \in 2..extra : dropped[i] = 0 THEN "half" ELSE "more")

\* Faulty variant of MathRound: the fraction is cut off
MathRound_Truncates(x) ==
  IF x = Zero THEN 0
  ELSE LET digits == SignificandBits + x.exp
       IN IF digits <= 0 THEN 0 ELSE BitsValue(x.bits, digits)

\* Math.round of a double below 2^31: the nearest integer, a fraction of
\* exactly one half going up
MathRound(x) ==
  IF x = Zero THEN 0
  ELSE LET digits == SignificandBits + x.exp
       IN IF digits < 0 THEN 0
          ELSE IF digits = 0 THEN 1
          ELSE IF digits >= SignificandBits THEN BitsValue(x.bits, SignificandBits)
          ELSE BitsValue(x.bits, digits) + x.bits[digits + 1]

\* total > 0 ? Math.round((completed / total) * 100) : 0
percentComplete(completed, total) ==
  IF total > 0 THEN MathRound(multiply(divide(completed, total), 100)) ELSE 0

RECURSIVE countEntries_NextPendingOnly(_, _, _)
\* Faulty variant of countEntries: only a pending Entry can be the next task
countEntries_NextPendingOnly(entries, k, acc) ==
  IF k > Len(entries) THEN acc
  ELSE countEntries_NextPendingOnly(entries, k + 1,
         [completed |-> acc.completed +
                          (IF entries[k].status = "completed" THEN 1 ELSE 0),
          total |-> acc.total + 1,
          nextTask |-> IF entries[k].status = "pending" /\ acc.nextTask = None
                       THEN entries[k] ELSE acc.nextTask])

RECURSIVE countEntries_LastNotCompleted(_, _, _)
\* Faulty variant of countEntries: nextTask is the last Entry not completed
countEntries_LastNotCompleted(entries, k, acc) ==
  IF k > Len(entries) THEN acc
  ELSE countEntries_LastNotCompleted(entries, k + 1,
         [completed |-> acc.completed +
                          (IF entries[k].status = "completed" THEN 1 ELSE 0),
          total |-> acc.total + 1,
          nextTask |-> IF entries[k].status # "completed"
                       THEN entries[k] ELSE acc.nextTask])

RECURSIVE countEntries(_, _, _)
\* the inner loop of getStatus over one Level
countEntries(entries, k, acc) ==
  IF k > Len(entries) THEN acc
  ELSE countEntries(entries, k + 1,
         [completed |-> acc.completed +
                          (IF entries[k].status = "completed" THEN 1 ELSE 0),
          total |-> acc.total + 1,
          nextTask |-> IF entries[k].status # "completed" /\ acc.nextTask = None
                       THEN entries[k] ELSE acc.nextTask])

RECURSIVE countLevels(_, _, _)
\* the outer loop of getStatus over the Levels
countLevels(levels, i, acc) ==
  IF i > Len(levels) THEN acc
  ELSE \* the counts after this Level are computed before the next is entered
       CHOOSE r \in {countLevels(levels, i + 1, counted) :
                       counted \in {countEntries(levels[i].dps, 1, acc)}} : TRUE

\* the summary of a plan that was read
summarise(yadasmith) ==
  CHOOSE summary \in
    {[completed |-> counted.completed,
      pending |-> counted.total - counted.completed,
      total |-> counted.total,
      percentComplete |-> percentComplete(counted.completed, counted.total),
      nextTask |-> counted.nextTask] :
       counted \in {countLevels(yadasmith.levels, 1,
                                [completed |-> 0, total |-> 0, nextTask |-> None])}} :
    TRUE

\* getStatus: None stands for a nextTask that is undefined or left out
getStatus(file) ==
  LET yadasmith == readYadasmith(file)
  IN IF yadasmith = None
     THEN [completed |-> 0, pending |-> 0, total |-> 0, percentComplete |-> 0,
           nextTask |-> None]
     ELSE summarise(yadasmith)

(***************************************************************************)
(* parser.ts and validator.ts                                              *)
(***************************************************************************)
RECURSIVE ConcatAll(_, _)
\* the sequences of q from the i-th on, one after the other
ConcatAll(q, i) == IF i > Len(q) THEN <<>> ELSE q[i] \o ConcatAll(q, i + 1)

\* the characters of an identifier or a display name
Chars(s) ==
  CASE s = "a" -> <<"a">>
    [] s = "B" -> <<"B">>
    [] s = "c" -> <<"c">>
    [] s = "x" -> <<"x">>
    [] s = "Alpha" -> <<"A", "l", "p", "h", "a">>
    [] s = "Beta" -> <<"B", "e", "t", "a">>
    [] s = "Gamma" -> <<"G", "a", "m", "m", "a">>

Digits == <<"0", "1", "2", "3", "4", "5", "6", "7", "8", "9">>

RECURSIVE NumberToString(_)
\* the decimal digits of a number that is not negative
NumberToString(n) ==
  IF n < 10 THEN <<Digits[n + 1]>>
  ELSE NumberToString(n \div 10) \o <<Digits[(n % 10) + 1]>>

\* String(value) of a YAML scalar: a number gives its digits, a string itself
String(value) ==
  IF "int" \in DOMAIN value THEN NumberToString(value.int) ELSE value.str

\* parseSubDP: what the validator reads of a numbered sub-task; an optional
\* field that the file does not give is not set
parseSubDP(raw, index) ==
  [name |-> IF "name" \in DOMAIN raw THEN String(raw.name)
            ELSE <<"s", "u", "b", "d", "p">> \o NumberToString(index),
   type |-> raw.type]
  @@ (IF "nature" \in DOMAIN raw THEN [nature |-> raw.nature] ELSE <<>>)
  @@ (IF "workflow" \in DOMAIN raw
      THEN [workflow |-> [k \in 1..Len(raw.workflow) |-> String(raw.workflow[k])]]
      ELSE <<>>)
  @@ (IF "dependencies" \in DOMAIN raw
      THEN [dependencies |-> [k \in 1..Len(raw.dependencies) |->
                                String(raw.dependencies[k])]]
      ELSE <<>>)

\* parseSubDPs: the order flag and the sub-tasks under positive numeric keys
parseSubDPs(raw) ==
  IF raw = None THEN [order |-> FALSE, items |-> <<>>]
  ELSE [order |-> raw.order,
        items |-> [num \in {n \in DOMAIN raw.items : n > 0} |->
                     parseSubDP(raw.items[num], num)]]

\* dep.includes(':')
includesColon(text) == \E k \in 1..Len(text) : text[k] = ":"

RECURSIVE split(_, _, _)
\* text.split(':'): the pieces between the colons, piece being the one under way
split(text, k, piece) ==
  IF k > Len(text) THEN <<piece>>
  ELSE IF text[k] = ":" THEN <<piece>> \o split(text, k + 1, <<>>)
  ELSE split(text, k + 1, Append(piece, text[k]))

\* the sub-tasks of a record; a record read from a file without a subdps
\* section has none
subdpsOf(dp) ==
  IF "subdps" \in DOMAIN dp THEN dp.subdps ELSE [order |-> FALSE, items |-> <<>>]

\* the names of the numbered sub-tasks, in key order
subdpNamesOf(dp) ==
  LET subdpIds == SortedNumbers(DOMAIN subdpsOf(dp).items)
  IN [k \in 1..Len(subdpIds) |-> subdpsOf(dp).items[subdpIds[k]].name]

\* Faulty variant of crossReferenceTarget: the record is looked up by identifier
crossReferenceTarget_ById(dpName, allDps) ==
  SelectSeq(allDps, LAMBDA d : Chars(d.id) = dpName)

\* allDps.find(d => d.name === dpName), as a list of at most its first match
crossReferenceTarget(dpName, allDps) ==
  LET named == SelectSeq(allDps, LAMBDA d : Chars(d.name) = dpName)
  IN IF Len(named) = 0 THEN <<>> ELSE <<named[1]>>

\* the three ways a sub-task dependency is accepted
isLocalSubdp(dp, dep) == dep \in Range(subdpNamesOf(dp))
isExternalDP(allDps, dep) == \E i \in 1..Len(allDps) : Chars(allDps[i].id) = dep
isCrossDPSubdp(allDps, dep) ==
  /\ includesColon(dep)
  /\ LET parts == split(dep, 1, <<>>)
         targetDP == crossReferenceTarget(parts[1], allDps)
     IN /\ Len(targetDP) > 0
        /\ parts[2] \in Range(subdpNamesOf(targetDP[1]))

\* validateSubDPs: the errors and warnings it adds to the result
validateSubDPs(dp, allDps) ==
  LET subdps == subdpsOf(dp)
      subdpIds == SortedNumbers(DOMAIN subdps.items)
      subdpNames == subdpNamesOf(dp)
      duplicate ==
        IF Cardinality(Range(subdpNames)) # Len(subdpNames)
        THEN <<[kind |-> "has duplicate subdp names", id |-> dp.id]>>
        ELSE <<>>
      depErrors(num) ==
        LET subdp == subdps.items[num]
            deps == IF "dependencies" \in DOMAIN subdp THEN subdp.dependencies
                    ELSE <<>>
            bad == SelectSeq(deps, LAMBDA dep :
                     /\ ~isLocalSubdp(dp, dep)
                     /\ ~isExternalDP(allDps, dep)
                     /\ ~isCrossDPSubdp(allDps, dep))
        IN [k \in 1..Len(bad) |->
              [kind |-> "Subdp depends on non-existent", id |-> dp.id,
               subdp |-> subdp.name, dep |-> bad[k]]]
      typeWarnings(num) ==
        LET subdp == subdps.items[num]
        IN (IF subdp.type = "dependency" /\ "nature" \notin DOMAIN subdp
            THEN <<[kind |-> "missing 'nature' field", subdp |-> subdp.name]>>
            ELSE <<>>)
           \o (IF subdp.type = "specification"
                   /\ ("workflow" \notin DOMAIN subdp \/ Len(subdp.workflow) = 0)
                THEN <<[kind |-> "has no workflow steps", subdp |-> subdp.name]>>
                ELSE <<>>)
      orderWarning ==
        IF subdps.order /\ Len(subdpIds) > 1
           /\ Len(subdpIds) # subdpIds[Len(subdpIds)]
        THEN <<[kind |-> "missing subdp numbers", id |-> dp.id]>>
        ELSE <<>>
  IN [errors |-> duplicate
                 \o ConcatAll([k \in 1..Len(subdpIds) |-> depErrors(subdpIds[k])], 1),
      warnings |-> ConcatAll([k \in 1..Len(subdpIds) |-> typeWarnings(subdpIds[k])], 1)
                   \o orderWarning]

\* the declared dependencies of dp that are no record's id
unknownDependencies(dp, allDps) ==
  SelectSeq(dp.dependencies, LAMBDA depId : depId \notin KnownIds(allDps))

\* Faulty variant of validateDP: a display name used twice is let through
validateDP_IgnoresDuplicates(dp, allDps) ==
  LET unknown == unknownDependencies(dp, allDps)
      sub == validateSubDPs(dp, allDps)
      errors ==
        [k \in 1..Len(unknown) |->
           [kind |-> "depends on non-existent DP", id |-> dp.id,
            other |-> unknown[k]]]
        \o sub.errors
  IN [valid |-> errors = <<>>, errors |-> errors, warnings |-> sub.warnings]

\* validateDP: duplicate names, dependencies on records that do not exist, then
\* the sub-tasks
validateDP(dp, allDps) ==
  LET duplicates == SelectSeq(allDps, LAMBDA d : d.name = dp.name /\ d.id # dp.id)
      unknown == unknownDependencies(dp, allDps)
      sub == validateSubDPs(dp, allDps)
      errors ==
        (IF Len(duplicates) > 0
         THEN <<[kind |-> "name is duplicated", id |-> dp.id, other |-> dp.name]>>
         ELSE <<>>)
        \o [k \in 1..Len(unknown) |->
              [kind |-> "depends on non-existent DP", id |-> dp.id,
               other |-> unknown[k]]]
        \o sub.errors
  IN [valid |-> errors = <<>>, errors |-> errors, warnings |-> sub.warnings]

\* validateAll: missing dependencies, each record's own validation, then
\* pairs of records that depend on each other
validateAll(records) ==
  IF Len(records) = 0
  THEN [valid |-> TRUE, errors |-> <<>>, warnings |-> <<"No DPs to validate">>]
  ELSE LET n == Len(records)
           missing == ConcatAll(
             [i \in 1..n |->
                [k \in 1..Len(unknownDependencies(records[i], records)) |->
                   [kind |-> "depends on missing DP", id |-> records[i].id,
                    other |-> unknownDependencies(records[i], records)[k]]]], 1)
           each == ConcatAll(
             [i \in 1..n |-> validateDP(records[i], records).errors], 1)
           circular == ConcatAll(
             [i \in 1..n |->
                LET later == SelectSeq([j \in 1..n |-> j], LAMBDA j :
                               /\ j > i
                               /\ records[j].id \in Range(records[i].dependencies)
                               /\ records[i].id \in Range(records[j].dependencies))
                IN [k \in 1..Len(later) |->
                      [kind |-> "Direct circular dependency", id |-> records[i].id,
                       other |-> records[later[k]].id]]], 1)
           errors == missing \o each \o circular
       IN [valid |-> errors = <<>>, errors |-> errors,
           warnings |-> ConcatAll(
             [i \in 1..n |-> validateDP(records[i], records).warnings], 1)]

(***************************************************************************)
(* The state module called on a stored plan                                *)
(***************************************************************************)
\* priorities of the records whose plan is stored
StorePriority(id) == IF id = "a" THEN 10 ELSE 50

\* acyclic record sets without unresolved or repeated dependencies
StoreInputs ==
  {[i \in 1..3 |-> ParsedDP(<<"a", "B", "c">>[i], d[<<"a", "B", "c">>[i]],
                            StorePriority(<<"a", "B", "c">>[i]))] :
     d \in {x \in DepAssignments(Ids) :
              \A id \in Ids : /\ MissingId \notin Range(x[id])
                              /\ Cardinality(Range(x[id])) = Len(x[id])}}

\* the plan with its Entries' statuses replaced in flattened order
RECURSIVE withStatuses(_, _, _)
withStatuses(levels, i, statuses) ==
  IF i > Len(levels) THEN <<>>
  ELSE <<[levels[i] EXCEPT !.dps =
            [k \in 1..Len(levels[i].dps) |->
               [levels[i].dps[k] EXCEPT !.status = statuses[k]]]]>>
       \o withStatuses(levels, i + 1,
                       SubSeq(statuses, Len(levels[i].dps) + 1, Len(statuses)))

InitStore ==
  /\ dps \in StoreInputs
  /\ pc = "idle"
  /\ graph = None
  /\ cycleCheck = None
  /\ result = None
  /\ prevResult = None
  /\ clock = 1
  /\ \E compiled \in {resolve(dps, 0)} :
       /\ compiled.errors = <<>>
       /\ \/ stored = None /\ edited = FALSE
          \/ stored = writeYadasmith(compiled.yadasmith) /\ edited = FALSE
          \/ \E statuses \in [1..Len(dps) -> TaskStatus] :
               /\ stored = writeYadasmith(
                    [compiled.yadasmith EXCEPT
                       !.levels = withStatuses(@, 1, statuses)])
               /\ edited = TRUE
  /\ lastOp = None
  /\ before = None
  /\ opResult = None
  /\ procs = None
  /\ leveling = None
  /\ cwd = InRoot

MarkOne(taskId) ==
  /\ clock <= MaxOps
  /\ LET r == markOne(stored, taskId, clock)
     IN /\ stored' = r.file
        /\ opResult' = r.result
  /\ lastOp' = [name |-> "markOne", id |-> taskId]
  /\ before' = stored
  /\ clock' = clock + 1
  /\ UNCHANGED <<dps, pc, graph, cycleCheck, result, prevResult, procs, leveling, edited, cwd>>

MarkUntil(targetId) ==
  /\ clock <= MaxOps
  /\ LET r == markUntil(stored, targetId, clock)
     IN /\ stored' = r.file
        /\ opResult' = r.result
  /\ lastOp' = [name |-> "markUntil", id |-> targetId]
  /\ before' = stored
  /\ clock' = clock + 1
  /\ UNCHANGED <<dps, pc, graph, cycleCheck, result, prevResult, procs, leveling, edited, cwd>>

ResetAll ==
  /\ clock <= MaxOps
  /\ LET r == resetAll(stored, clock)
     IN /\ stored' = r.file
        /\ opResult' = r.result
  /\ lastOp' = [name |-> "resetAll", id |-> None]
  /\ before' = stored
  /\ clock' = clock + 1
  /\ UNCHANGED <<dps, pc, graph, cycleCheck, result, prevResult, procs, leveling, edited, cwd>>

\* getStatus reads the plan and writes nothing
GetStatus ==
  /\ clock <= MaxOps
  /\ opResult' = getStatus(stored)
  /\ lastOp' = [name |-> "getStatus", id |-> None]
  /\ before' = stored
  /\ clock' = clock + 1
  /\ UNCHANGED <<dps, pc, graph, cycleCheck, result, prevResult, procs, leveling, stored, edited, cwd>>

\* readYadasmith, with hasYadasmith asked after it
ReadYadasmith ==
  /\ clock <= MaxOps
  /\ opResult' = [yadasmith |-> readYadasmith(stored), exists |-> hasYadasmith(stored)]
  /\ lastOp' = [name |-> "readYadasmith", id |-> None]
  /\ before' = stored
  /\ clock' = clock + 1
  /\ UNCHANGED <<dps, pc, graph, cycleCheck, result, prevResult, procs, leveling, stored, edited, cwd>>

\* the plan of a successful resolve with the statuses a stored plan holds
keepStatuses(yadasmith, file) ==
  IF file = None THEN yadasmith
  ELSE [yadasmith EXCEPT !.levels =
          [i \in 1..Len(@) |->
             [@[i] EXCEPT !.dps =
                [k \in 1..Len(@) |->
                   LET old == getTaskById(readYadasmith(file), @[k].id)
                   IN IF old = None THEN @[k]
                      ELSE [@[k] EXCEPT !.status = old.status]]]]]

\* Faulty variant of Compile: Entries keep the status the stored plan gives them
Compile_KeepsStatuses ==
  /\ clock <= MaxOps
  /\ \E validationResult \in {validateAll(dps)}, resolveResult \in {resolve(dps, clock)} :
       IF Len(dps) = 0
       THEN /\ stored' = stored
            /\ edited' = edited
            /\ opResult' = [exit |-> 0, errors |-> <<>>, yadasmith |-> None]
       ELSE IF ~validationResult.valid
       THEN /\ stored' = stored
            /\ edited' = edited
            /\ opResult' = [exit |-> 1, errors |-> validationResult.errors,
                            yadasmith |-> None]
       ELSE IF Len(resolveResult.errors) > 0
       THEN /\ stored' = stored
            /\ edited' = edited
            /\ opResult' = [exit |-> 1, errors |-> resolveResult.errors,
                            yadasmith |-> None]
       ELSE /\ stored' = writeYadasmith(keepStatuses(resolveResult.yadasmith, stored))
            /\ edited' = FALSE
            /\ opResult' = [exit |-> 0, errors |-> <<>>,
                            yadasmith |-> resolveResult.yadasmith]
  /\ lastOp' = [name |-> "compile", id |-> None]
  /\ before' = stored
  /\ clock' = clock + 1
  /\ UNCHANGED <<dps, pc, graph, cycleCheck, result, prevResult, procs, leveling, cwd>>

\* Faulty variant of Compile: the errors of resolve do not stop the write
Compile_SkipsResolveErrors ==
  /\ clock <= MaxOps
  /\ \E validationResult \in {validateAll(dps)}, resolveResult \in {resolve(dps, clock)} :
       IF Len(dps) = 0
       THEN /\ stored' = stored
            /\ edited' = edited
            /\ opResult' = [exit |-> 0, errors |-> <<>>, yadasmith |-> None]
       ELSE IF ~validationResult.valid
       THEN /\ stored' = stored
            /\ edited' = edited
            /\ opResult' = [exit |-> 1, errors |-> validationResult.errors,
                            yadasmith |-> None]
       ELSE /\ stored' = writeYadasmith(resolveResult.yadasmith)
            /\ edited' = FALSE
            /\ opResult' = [exit |-> 0, errors |-> <<>>,
                            yadasmith |-> resolveResult.yadasmith]
  /\ lastOp' = [name |-> "compile", id |-> None]
  /\ before' = stored
  /\ clock' = clock + 1
  /\ UNCHANGED <<dps, pc, graph, cycleCheck, result, prevResult, procs, leveling, cwd>>

\* compile on the parsed records: validate, resolve, and write the plan only
\* when neither reported an error
Compile ==
  /\ clock <= MaxOps
  /\ \E validationResult \in {validateAll(dps)}, resolveResult \in {resolve(dps, clock)} :
       IF Len(dps) = 0
       THEN /\ stored' = stored
            /\ edited' = edited
            /\ opResult' = [exit |-> 0, errors |-> <<>>, yadasmith |-> None]
       ELSE IF ~validationResult.valid
       THEN /\ stored' = stored
            /\ edited' = edited
            /\ opResult' = [exit |-> 1, errors |-> validationResult.errors,
                            yadasmith |-> None]
       ELSE IF Len(resolveResult.errors) > 0
       THEN /\ stored' = stored
            /\ edited' = edited
            /\ opResult' = [exit |-> 1, errors |-> resolveResult.errors,
                            yadasmith |-> None]
       ELSE /\ stored' = writeYadasmith(resolveResult.yadasmith)
            /\ edited' = FALSE
            /\ opResult' = [exit |-> 0, errors |-> <<>>,
                            yadasmith |-> resolveResult.yadasmith]
  /\ lastOp' = [name |-> "compile", id |-> None]
  /\ before' = stored
  /\ clock' = clock + 1
  /\ UNCHANGED <<dps, pc, graph, cycleCheck, result, prevResult, procs, leveling, cwd>>

NextStore ==
  \/ \E id \in DepIds : MarkOne(id)
  \/ \E id \in DepIds : MarkUntil(id)
  \/ ResetAll
  \/ GetStatus
  \/ ReadYadasmith
  \/ Compile

SpecStore == InitStore /\ [][NextStore]_vars

(***************************************************************************)
(* writeYadasmith called with a plan of the records                        *)
(***************************************************************************)
\* the statuses in the order the type lists them
StatusOrder == <<"pending", "completed", "in_progress", "skipped">>

\* status choices for n Entries: each status occurs at each position
StatusPatterns(n) ==
  {[k \in 1..n |-> StatusOrder[((k + r) % Len(StatusOrder)) + 1]] :
     r \in 0..(Len(StatusOrder) - 1)}

\* plans of the records to pass to writeYadasmith
PlansOf(records, now) ==
  {[resolve(records, now).yadasmith EXCEPT !.levels = withStatuses(@, 1, statuses)] :
     statuses \in StatusPatterns(Len(records))}

\* writeYadasmith(root, yadasmith); opResult keeps the plan that was passed
WriteYadasmith(yadasmith) ==
  /\ clock <= MaxOps
  /\ stored' = writeYadasmith(yadasmith)
  /\ opResult' = yadasmith
  /\ lastOp' = [name |-> "writeYadasmith", id |-> None]
  /\ before' = stored
  /\ clock' = clock + 1
  /\ UNCHANGED <<dps, pc, graph, cycleCheck, result, prevResult, procs, leveling, edited, cwd>>

NextWrite ==
  \/ \E yadasmith \in PlansOf(dps, clock) : WriteYadasmith(yadasmith)
  \/ ReadYadasmith

SpecWrite == InitStore /\ [][NextWrite]_vars

(***************************************************************************)
(* getStatus on plans of up to MaxEntries Entries                          *)
(***************************************************************************)
\* file names t01, t02, ... of independent records
EntryId(i) == IF i < 10 THEN "t0" \o ToString(i) ELSE "t" \o ToString(i)

\* the plan of total independent records of equal priority, its first
\* completed Entries completed
LevelPlan(total, completed) ==
  [version |-> "1.0.0",
   compiledAt |-> 0,
   levels |-> IF total = 0 THEN <<>>
              ELSE <<[level |-> 1,
                      dps |-> [k \in 1..total |->
                                 [ref |-> EntryId(k), id |-> EntryId(k),
                                  status |-> IF k <= completed THEN "completed"
                                             ELSE "pending",
                                  level |-> 1]]]>>]

InitStatus ==
  /\ \E total \in 0..MaxEntries, completed \in 0..MaxEntries :
       /\ completed <= total
       /\ dps = [k \in 1..total |->
                   [id |-> EntryId(k), name |-> EntryId(k), priority |-> 0,
                    dependencies |-> <<>>]]
       /\ stored = writeYadasmith(LevelPlan(total, completed))
  /\ pc = "idle"
  /\ graph = None
  /\ cycleCheck = None
  /\ result = None
  /\ prevResult = None
  /\ clock = 1
  /\ lastOp = None
  /\ before = None
  /\ opResult = None
  /\ edited = FALSE
  /\ procs = None
  /\ leveling = None
  /\ cwd = InRoot

NextStatus == GetStatus

SpecStatus == InitStatus /\ [][NextStatus]_vars

(***************************************************************************)
(* Reference definitions over the supplied records                         *)
(***************************************************************************)
RecordOf(records, id) == CHOOSE dp \in Range(records) : dp.id = id

\* the dependencies of id that resolve to a record
ResolvedDeps(records, id) ==
  Range(RecordOf(records, id).dependencies) \cap KnownIds(records)

RECURSIVE ReachableFrom(_, _, _)
\* the records reached from the set S along one or more dependency edges
ReachableFrom(records, S, n) ==
  LET step == UNION {ResolvedDeps(records, x) : x \in S}
  IN IF n = 0 THEN {}
     ELSE step \cup ReachableFrom(records, step, n - 1)

HasCycle(records) ==
  \E x \in KnownIds(records) : x \in ReachableFrom(records, {x}, Len(records))

RECURSIVE RefLevel(_, _, _)
\* 1 without resolved dependencies, else 1 + the highest level among them
RefLevel(records, id, fuel) ==
  LET deps == ResolvedDeps(records, id)
  IN IF deps = {} \/ fuel = 0 THEN 1
     ELSE LET ls == {RefLevel(records, d, fuel - 1) : d \in deps}
          IN 1 + (CHOOSE m \in ls : \A l \in ls : l <= m)

GraphBuilt == graph # None
Returned == pc = "returned"

(***************************************************************************)
(* C1: on an acyclic input, once buildGraph has leveled the graph, every   *)
(* dependency D in the forward edge set of a node N has level(D) strictly  *)
(* below level(N).                                                         *)
(***************************************************************************)
C1_DependencyLevelsBelow ==
  GraphBuilt =>
    \/ \A n \in DOMAIN graph.nodes :
         \A d \in Range(graph.nodes[n].dependencies) :
           graph.nodes[d].level < graph.nodes[n].level
    \/ HasCycle(dps)

C1_Witness ==
  /\ GraphBuilt /\ ~HasCycle(dps)
  /\ \E n, m \in DOMAIN graph.nodes :
       /\ n # m
       /\ Range(graph.nodes[n].dependencies) = DOMAIN graph.nodes \ {n}
       /\ Range(graph.nodes[m].dependencies) = DOMAIN graph.nodes \ {n, m}
       /\ graph.nodes[n].level = 3

C3_CycleDetected ==
  (cycleCheck # None) =>
    /\ (~cycleCheck.valid) <=> HasCycle(dps)
    /\ ~HasCycle(dps) => (cycleCheck.valid /\ cycleCheck.errors = <<>>)

C3_Witness ==
  /\ cycleCheck # None /\ ~cycleCheck.valid
  /\ Len(dps) = 3
  /\ dps[1].dependencies = <<>>
  /\ dps[2].dependencies = <<>>
  /\ dps[3].dependencies = <<dps[3].id>>

(***************************************************************************)
(* C4: a chain x0 -> ... -> xk reported by detectCycles is a cycle of the  *)
(* input: xk = x0 and every x(i+1) is a declared dependency of xi that     *)
(* resolves to a record.                                                   *)
(***************************************************************************)
IsRealCycle(records, chain) ==
  /\ Len(chain) >= 2
  /\ chain[Len(chain)] = chain[1]
  /\ \A i \in 1..(Len(chain) - 1) :
       /\ chain[i] \in KnownIds(records)
       /\ chain[i + 1] \in ResolvedDeps(records, chain[i])

C4_ReportedChainIsCycle ==
  (cycleCheck # None) =>
    \A i \in 1..Len(cycleCheck.errors) :
      IsRealCycle(dps, cycleCheck.errors[i].chain)

\* the cycle starts after the first node of the path: a -> B -> c -> B
C4_Witness ==
  /\ cycleCheck # None
  /\ Len(cycleCheck.errors) = 1
  /\ Len(cycleCheck.errors[1].chain) = 3
  /\ Len(dps) = 3
  /\ cycleCheck.errors[1].chain[1] # dps[1].id
  /\ dps[1].dependencies # <<>>
  /\ dps[1].dependencies[1] = cycleCheck.errors[1].chain[1]

(***************************************************************************)
(* Plans                                                                   *)
(***************************************************************************)
Entries(yadasmith) == FlattenLevels(yadasmith.levels, 1)

\* position of identifier id in the flattened order (0 when absent)
FlatPosition(yadasmith, id) ==
  LET order == getFlatTaskOrder(yadasmith)
  IN IF id \in Range(order) THEN IndexOf(order, id) ELSE 0

\* number of the Level that holds an Entry of identifier id
LevelOfEntry(yadasmith, id) ==
  LET i == CHOOSE k \in 1..Len(yadasmith.levels) :
             \E e \in Range(yadasmith.levels[k].dps) : e.id = id
  IN yadasmith.levels[i].level

PriorityOfId(records, id) == RecordOf(records, id).priority

\* a plan came back: resolve returned past the cycle check
PlanProduced == Returned /\ Len(dps) > 0 /\ result.errors = <<>>

(***************************************************************************)
(* C5: on an input whose dependency relation has a cycle, resolve returns  *)
(* a non-empty error list holding a cycle description, and no Compiled     *)
(* Plan: the returned plan has no Level and no Entry.                      *)
(***************************************************************************)
C5_CycleYieldsErrorsAndNoPlan ==
  (Returned /\ HasCycle(dps)) =>
    /\ result.errors # <<>>
    /\ \E i \in 1..Len(result.errors) : result.errors[i].kind = "cycle"
    /\ result.yadasmith.levels = <<>>

\* A depends on B, B depends on A
C5_Witness ==
  /\ Returned
  /\ Len(dps) = 2
  /\ dps[1].dependencies = <<dps[2].id>>
  /\ dps[2].dependencies = <<dps[1].id>>
  /\ Len(result.errors) = 1

C9_DependenciesInLowerLevels ==
  PlanProduced =>
    \/ \A i \in 1..Len(dps) :
         /\ FlatPosition(result.yadasmith, dps[i].id) > 0
         /\ \A d \in ResolvedDeps(dps, dps[i].id) :
              /\ FlatPosition(result.yadasmith, d) > 0
              /\ LevelOfEntry(result.yadasmith, d)
                   < LevelOfEntry(result.yadasmith, dps[i].id)
              /\ FlatPosition(result.yadasmith, d)
                   < FlatPosition(result.yadasmith, dps[i].id)
    \/ HasCycle(dps)

\* a chain of three records supplied dependents first
C9_Witness ==
  /\ PlanProduced /\ ~HasCycle(dps)
  /\ Len(dps) = 3
  /\ dps[1].dependencies = <<dps[2].id>>
  /\ dps[2].dependencies = <<dps[3].id>>
  /\ getFlatTaskOrder(result.yadasmith) = <<dps[3].id, dps[2].id, dps[1].id>>

(***************************************************************************)
(* Stored plans                                                            *)
(***************************************************************************)
StoredPlan == readYadasmith(stored)
PlanBefore == readYadasmith(before)

\* the last call into the state module was name(id) on a plan holding id
CalledOnPresent(name, id) ==
  /\ lastOp # None
  /\ lastOp.name = name
  /\ lastOp.id = id
  /\ before # None
  /\ findTask(PlanBefore, id) # None

(***************************************************************************)
(* C10: after markOne(root, T) on a stored plan that holds T, the Entry T  *)
(* has status completed and every other Entry has the status it had        *)
(* before the call.                                                        *)
(***************************************************************************)
C10_MarkOneCompletesOnlyTarget ==
  \A t \in Ids :
    CalledOnPresent("markOne", t) =>
      /\ stored # None
      /\ getTaskById(StoredPlan, t) # None
      /\ getTaskById(StoredPlan, t).status = "completed"
      /\ Len(Entries(StoredPlan)) = Len(Entries(PlanBefore))
      /\ \A k \in 1..Len(Entries(PlanBefore)) :
           /\ Entries(StoredPlan)[k].id = Entries(PlanBefore)[k].id
           /\ (Entries(PlanBefore)[k].id # t) =>
                Entries(StoredPlan)[k].status = Entries(PlanBefore)[k].status

\* T pending in the middle, a completed Entry after it, a pending one before
C10_Witness ==
  \E t \in Ids :
    /\ CalledOnPresent("markOne", t)
    /\ FlatPosition(PlanBefore, t) = 2
    /\ Entries(PlanBefore)[1].status = "pending"
    /\ Entries(PlanBefore)[2].status = "pending"
    /\ Entries(PlanBefore)[3].status = "completed"
    /\ Entries(StoredPlan)[2].status = "completed"

\* the statuses of a plan's Entries in flattened order
Statuses(yadasmith) ==
  [k \in 1..Len(Entries(yadasmith)) |-> Entries(yadasmith)[k].status]

\* the ids of a plan's Entries in flattened order
EntryIds(yadasmith) ==
  [k \in 1..Len(Entries(yadasmith)) |-> Entries(yadasmith)[k].id]

\* how many Entries of the plan have the status
CountStatus(yadasmith, status) ==
  Cardinality({k \in 1..Len(Entries(yadasmith)) :
                 Entries(yadasmith)[k].status = status})

(***************************************************************************)
(* C11: after markUntil(root, T) on a stored plan that holds T, every      *)
(* Entry at or before T in flattened order is completed whatever it was;   *)
(* every Entry after T that was completed is pending; every Entry after T  *)
(* that was not completed has the status it had before.                    *)
(***************************************************************************)
C11_MarkUntilCompletesThroughTarget ==
  \A t \in Ids :
    CalledOnPresent("markUntil", t) =>
      /\ stored # None
      /\ opResult = okResult
      /\ EntryIds(StoredPlan) = EntryIds(PlanBefore)
      /\ \A k \in 1..Len(Entries(PlanBefore)) :
           IF k <= FlatPosition(PlanBefore, t)
           THEN Statuses(StoredPlan)[k] = "completed"
           ELSE IF Statuses(PlanBefore)[k] = "completed"
           THEN Statuses(StoredPlan)[k] = "pending"
           ELSE Statuses(StoredPlan)[k] = Statuses(PlanBefore)[k]

\* T first of three: it was in_progress, a completed and a skipped Entry follow
C11_Witness ==
  \E t \in Ids :
    /\ CalledOnPresent("markUntil", t)
    /\ FlatPosition(PlanBefore, t) = 1
    /\ Statuses(PlanBefore) = <<"in_progress", "completed", "skipped">>
    /\ Statuses(StoredPlan) = <<"completed", "pending", "skipped">>

(***************************************************************************)
(* C12: markOne or markUntil called with an id that the stored plan does   *)
(* not hold returns valid = false with exactly one error, and the stored   *)
(* plan is what it was before the call, statuses and timestamp alike.      *)
(***************************************************************************)
C12_UnknownIdLeavesPlanUntouched ==
  (/\ lastOp # None
   /\ lastOp.name \in {"markOne", "markUntil"}
   /\ before # None
   /\ findTask(PlanBefore, lastOp.id) = None)
  => /\ opResult.valid = FALSE
     /\ Len(opResult.errors) = 1
     /\ opResult.errors[1] = [kind |-> "Task not found", id |-> lastOp.id]
     /\ stored = before
     /\ StoredPlan.compiledAt = PlanBefore.compiledAt
     /\ Statuses(StoredPlan) = Statuses(PlanBefore)

\* markUntil on an id outside a plan that an earlier call had already written
C12_Witness ==
  /\ lastOp # None
  /\ lastOp.name = "markUntil"
  /\ lastOp.id = MissingId
  /\ before # None
  /\ PlanBefore.compiledAt = 1
  /\ "completed" \in Range(Statuses(PlanBefore))
  /\ opResult.valid = FALSE
  /\ stored = before

(***************************************************************************)
(* C13: resetAll on a stored plan sets every completed Entry to pending    *)
(* and leaves every other Entry as it was; a plan with N completed and M   *)
(* pending Entries has 0 completed and N + M pending afterwards.           *)
(***************************************************************************)
C13_ResetAllRevertsCompleted ==
  (/\ lastOp # None
   /\ lastOp.name = "resetAll"
   /\ before # None)
  => /\ stored # None
     /\ opResult = okResult
     /\ EntryIds(StoredPlan) = EntryIds(PlanBefore)
     /\ \A k \in 1..Len(Entries(PlanBefore)) :
          Statuses(StoredPlan)[k] =
            IF Statuses(PlanBefore)[k] = "completed" THEN "pending"
            ELSE Statuses(PlanBefore)[k]
     /\ CountStatus(StoredPlan, "completed") = 0
     /\ CountStatus(StoredPlan, "pending") =
          CountStatus(PlanBefore, "completed") + CountStatus(PlanBefore, "pending")

\* two completed Entries and an in_progress one
C13_Witness ==
  /\ lastOp # None
  /\ lastOp.name = "resetAll"
  /\ before # None
  /\ Statuses(PlanBefore) = <<"completed", "in_progress", "completed">>
  /\ Statuses(StoredPlan) = <<"pending", "in_progress", "pending">>

\* the last call into the state module was name, with or without a plan
Called(name) == lastOp # None /\ lastOp.name = name

(***************************************************************************)
(* C14: getStatus on a stored plan returns total = the number of Entries,  *)
(* completed = the number of completed Entries, pending = total -          *)
(* completed, and nextTask = the first Entry in flattened order that is    *)
(* not completed, none when every Entry is completed.                      *)
(***************************************************************************)
C14_StatusCountsAndNextTask ==
  (Called("getStatus") /\ before # None) =>
    LET entries == Entries(PlanBefore)
        open == {k \in 1..Len(entries) : entries[k].status # "completed"}
    IN /\ opResult.total = Len(entries)
       /\ opResult.completed = CountStatus(PlanBefore, "completed")
       /\ opResult.pending = opResult.total - opResult.completed
       /\ opResult.nextTask =
            IF open = {} THEN None
            ELSE entries[CHOOSE k \in open : \A j \in open : k <= j]
       /\ stored = before

\* the first Entry completed, the next one in_progress: it is the next task
C14_Witness ==
  /\ Called("getStatus")
  /\ before # None
  /\ Statuses(PlanBefore) = <<"completed", "in_progress", "pending">>
  /\ opResult.nextTask = Entries(PlanBefore)[2]
  /\ opResult.completed = 1
  /\ opResult.pending = 2

\* the integer nearest to 100 * completed / total, a half going up
NearestPercent(completed, total) == (200 * completed + total) \div (2 * total)

(***************************************************************************)
(* C15 as stated: getStatus reports percentComplete as the integer nearest *)
(* to 100 * completed / total, a half rounding up, and 0 when total = 0;   *)
(* with 1 of 3 Entries completed it reports completed = 1, total = 3,      *)
(* percentComplete = 33 and the first Entry not completed as nextTask.     *)
(***************************************************************************)
C15_PercentIsNearestInteger ==
  (Called("getStatus") /\ before # None) =>
    /\ opResult.percentComplete =
         IF opResult.total = 0 THEN 0
         ELSE NearestPercent(opResult.completed, opResult.total)
    /\ (opResult.total = 3 /\ opResult.completed = 1) =>
         /\ opResult.percentComplete = 33
         /\ opResult.nextTask = Entries(PlanBefore)[2]

\* What does hold of the percentage: it is 0 for an empty plan, it is the
\* nearest integer whenever 100 * completed / total is not an integer plus
\* one half, and on such a half it is one of the two neighbours
C15_PercentWithinHalf ==
  (Called("getStatus") /\ before # None) =>
    /\ opResult.total = 0 => opResult.percentComplete = 0
    /\ opResult.total > 0 =>
         LET exact == NearestPercent(opResult.completed, opResult.total)
             tie == (200 * opResult.completed + opResult.total)
                      % (2 * opResult.total) = 0
         IN IF tie THEN opResult.percentComplete \in {exact - 1, exact}
            ELSE opResult.percentComplete = exact
    /\ (opResult.total = 3 /\ opResult.completed = 1) =>
         /\ opResult.percentComplete = 33
         /\ opResult.nextTask = Entries(PlanBefore)[2]

\* 23 of 40 Entries completed: 57.5 percent is reported as 57
C15_Witness ==
  /\ Called("getStatus")
  /\ opResult.total = 40
  /\ opResult.completed = 23
  /\ opResult.percentComplete = 57
  /\ NearestPercent(23, 40) = 58

(***************************************************************************)
(* C16: with no plan stored, readYadasmith returns nothing, getStatus      *)
(* returns all zeros and no nextTask, resetAll returns a warning and no    *)
(* error, markOne and markUntil return valid = false; none of them creates *)
(* a plan, hasYadasmith is still false afterwards.                         *)
(***************************************************************************)
C16_NoPlanNoFailureNoCreation ==
  (lastOp # None /\ lastOp.name # "compile" /\ before = None) =>
    /\ stored = None
    /\ ~hasYadasmith(stored)
    /\ Called("readYadasmith") =>
         opResult.yadasmith = None /\ opResult.exists = FALSE
    /\ Called("getStatus") =>
         opResult = [completed |-> 0, pending |-> 0, total |-> 0,
                     percentComplete |-> 0, nextTask |-> None]
    /\ Called("resetAll") =>
         /\ opResult.valid
         /\ opResult.errors = <<>>
         /\ Len(opResult.warnings) = 1
    /\ (Called("markOne") \/ Called("markUntil")) =>
         /\ opResult.valid = FALSE
         /\ opResult.errors = <<missingFileError>>

\* resetAll as the second call on a project that has no plan
C16_Witness ==
  /\ Called("resetAll")
  /\ before = None
  /\ clock = 3
  /\ stored = None
  /\ opResult.warnings # <<>>

C18_CompileStartsAllPending ==
  (Called("compile") /\ opResult.exit = 0 /\ Len(dps) > 0) =>
    /\ \A k \in 1..Len(Entries(opResult.yadasmith)) :
         Entries(opResult.yadasmith)[k].status = "pending"
    /\ stored # None
    /\ StoredPlan = opResult.yadasmith
    /\ Len(Entries(StoredPlan)) = Len(dps)
    /\ \A k \in 1..Len(Entries(StoredPlan)) : Statuses(StoredPlan)[k] = "pending"

\* compile after a mark operation had completed two Entries
C18_Witness ==
  /\ Called("compile")
  /\ opResult.exit = 0
  /\ before # None
  /\ PlanBefore.compiledAt = 1
  /\ CountStatus(PlanBefore, "completed") = 2
  /\ CountStatus(StoredPlan, "pending") = 3

(***************************************************************************)
(* C19: from a freshly compiled plan, whatever markOne, markUntil and      *)
(* resetAll calls follow, every Entry is pending or completed; none of     *)
(* these calls moves an Entry into in_progress or skipped, and an Entry    *)
(* that is in_progress or skipped changes only when a mark operation sets  *)
(* it to completed.                                                        *)
(***************************************************************************)
C19_StatusVocabulary ==
  /\ (stored # None /\ ~edited) =>
       \A k \in 1..Len(Entries(StoredPlan)) :
         Statuses(StoredPlan)[k] \in {"pending", "completed"}
  /\ (lastOp # None /\ lastOp.name \in {"markOne", "markUntil", "resetAll"}
      /\ before # None) =>
       /\ stored # None
       /\ Len(Entries(StoredPlan)) = Len(Entries(PlanBefore))
       /\ \A k \in 1..Len(Entries(PlanBefore)) :
            /\ Statuses(StoredPlan)[k] \in {"in_progress", "skipped"} =>
                 Statuses(StoredPlan)[k] = Statuses(PlanBefore)[k]
            /\ (/\ Statuses(PlanBefore)[k] \in {"in_progress", "skipped"}
                /\ Statuses(StoredPlan)[k] # Statuses(PlanBefore)[k]) =>
                 /\ Statuses(StoredPlan)[k] = "completed"
                 /\ lastOp.name \in {"markOne", "markUntil"}

\* two calls after a compile: one Entry completed, the others pending
C19_Witness ==
  /\ stored # None
  /\ ~edited
  /\ clock = 3
  /\ Called("markOne")
  /\ PlanBefore.compiledAt = 1
  /\ CountStatus(StoredPlan, "completed") = 1
  /\ CountStatus(StoredPlan, "pending") = 2

(***************************************************************************)
(* C20: buildGraph returns a graph with exactly one node per Task Record;  *)
(* for known records A and B, B is among A's dependencies in the graph     *)
(* exactly when A is among B's dependents, and exactly when A declares B;  *)
(* a declared identifier that matches no record gives no edge and no       *)
(* error. Stated of the graph as buildGraph returns it.                    *)
(***************************************************************************)
C20_GraphEdgesMirrorDeclarations ==
  (GraphBuilt /\ pc = "check") =>
    /\ DOMAIN graph.nodes = KnownIds(dps)
    /\ Cardinality(DOMAIN graph.nodes) = Len(dps)
    /\ Len(graph.keys) = Len(dps)
    /\ \A A \in KnownIds(dps) :
         /\ graph.nodes[A].id = A
         /\ Range(graph.nodes[A].dependencies) \subseteq KnownIds(dps)
         /\ Range(graph.nodes[A].dependents) \subseteq KnownIds(dps)
         /\ \A B \in KnownIds(dps) :
              /\ (B \in Range(graph.nodes[A].dependencies))
                   <=> (A \in Range(graph.nodes[B].dependents))
              /\ (B \in Range(graph.nodes[A].dependencies))
                   <=> (B \in Range(RecordOf(dps, A).dependencies))
    /\ result.errors = <<>>

\* a record that declares a known and an unknown identifier
C20_Witness ==
  /\ GraphBuilt
  /\ pc = "check"
  /\ Len(dps) = 2
  /\ dps[1].dependencies = <<MissingId, dps[2].id>>
  /\ graph.nodes[dps[1].id].dependencies = <<dps[2].id>>
  /\ graph.nodes[dps[2].id].dependents = <<dps[1].id>>
  /\ graph.nodes[dps[2].id].dependencies = <<>>

(***************************************************************************)
(* compile on record sets that validation or resolution may reject         *)
(***************************************************************************)
\* the records a, B and c with any declared dependencies; with shared, the
\* file B.yada gives the display name of a.yada
GateInputs ==
  {[i \in 1..3 |->
      LET id == <<"a", "B", "c">>[i]
          dp == ParsedDP(id, d[id], StorePriority(id))
      IN IF shared /\ id = "B" THEN [dp EXCEPT !.name = DisplayName("a")] ELSE dp] :
     d \in DepAssignments(Ids), shared \in BOOLEAN}

\* the plan an earlier compile of a and B wrote, a marked since
PriorPlan ==
  LET compiled == resolve(<<ParsedDP("a", <<>>, 10), ParsedDP("B", <<"a">>, 50)>>, 0)
  IN writeYadasmith([compiled.yadasmith EXCEPT
                       !.levels = withStatuses(@, 1, <<"completed", "pending">>)])

InitGate ==
  /\ dps \in GateInputs
  /\ pc = "idle"
  /\ graph = None
  /\ cycleCheck = None
  /\ result = None
  /\ prevResult = None
  /\ clock = 1
  /\ stored \in {None, PriorPlan}
  /\ edited = FALSE
  /\ lastOp = None
  /\ before = None
  /\ opResult = None
  /\ procs = None
  /\ leveling = None
  /\ cwd = InRoot

NextGate ==
  \/ Compile
  \/ ReadYadasmith

SpecGate == InitGate /\ [][NextGate]_vars

\* some record declares a dependency that is no record's identifier
HasMissingDependency(records) ==
  \E i \in 1..Len(records) : ~(Range(records[i].dependencies) \subseteq KnownIds(records))

\* two records with different identifiers have the same display name
SharesDisplayName(records) ==
  \E i, j \in 1..Len(records) :
    records[i].id # records[j].id /\ records[i].name = records[j].name

(***************************************************************************)
(* C21: compile writes the plan only when validation and resolution report *)
(* no errors. With a dependency on a record that does not exist, a display *)
(* name shared by two records, or a dependency cycle of any length (a      *)
(* self-dependency included), compile exits with failure, writes nothing   *)
(* and leaves the stored plan, if any, as it was.                          *)
(***************************************************************************)
C21_CompileWritesOnlyWithoutErrors ==
  Called("compile") =>
    /\ (HasMissingDependency(dps) \/ SharesDisplayName(dps) \/ HasCycle(dps)) =>
         /\ opResult.exit = 1
         /\ opResult.errors # <<>>
         /\ opResult.yadasmith = None
         /\ stored = before
    /\ stored # before =>
         /\ opResult.exit = 0
         /\ opResult.errors = <<>>
         /\ validateAll(dps).valid

\* a cycle through all three records, which validation lets through, met by a
\* compile over the plan of an earlier compile
C21_Witness ==
  /\ Called("compile")
  /\ before = PriorPlan
  /\ dps[1].dependencies = <<"B">>
  /\ dps[2].dependencies = <<"c">>
  /\ dps[3].dependencies = <<"a">>
  /\ ~SharesDisplayName(dps)
  /\ validateAll(dps).valid
  /\ opResult.exit = 1
  /\ Len(opResult.errors) = 1
  /\ stored = PriorPlan

(***************************************************************************)
(* C27: when two Task Records with different identifiers share a display   *)
(* name, validation reports an error naming the duplicated name, and       *)
(* compile fails without writing.                                          *)
(***************************************************************************)
C27_SharedDisplayNameRejected ==
  (Called("compile") /\ SharesDisplayName(dps)) =>
    /\ ~validateAll(dps).valid
    /\ opResult.exit = 1
    /\ \E k \in 1..Len(opResult.errors) :
         /\ opResult.errors[k].kind = "name is duplicated"
         /\ opResult.errors[k].other = DisplayName("a")
    /\ stored = before

\* the shared name is the only fault of the record set
C27_Witness ==
  /\ Called("compile")
  /\ SharesDisplayName(dps)
  /\ ~HasMissingDependency(dps)
  /\ ~HasCycle(dps)
  /\ dps[2].dependencies = <<"a">>
  /\ opResult.exit = 1
  /\ Len(opResult.errors) = 2
  /\ stored = before

(***************************************************************************)
(* C22: cycle detection stops at the first cycle it finds. The error list  *)
(* detectCycles returns holds at most one cycle description, one exactly   *)
(* when the result is not valid, and so does the error list resolve        *)
(* returns on a cyclic input, however many cycles the graph contains.      *)
(***************************************************************************)
C22_AtMostOneCycleReported ==
  /\ cycleCheck # None =>
       /\ Len(cycleCheck.errors) <= 1
       /\ cycleCheck.valid <=> cycleCheck.errors = <<>>
       /\ \A k \in 1..Len(cycleCheck.errors) : cycleCheck.errors[k].kind = "cycle"
  /\ (Returned /\ cycleCheck # None /\ HasCycle(dps)) =>
       /\ Len(result.errors) = 1
       /\ result.errors = cycleCheck.errors

\* two cycles that share no record: a on itself, B and c on each other
C22_Witness ==
  /\ Returned
  /\ cycleCheck # None
  /\ Len(dps) = 3
  /\ "a" \in Range(RecordOf(dps, "a").dependencies)
  /\ "c" \in Range(RecordOf(dps, "B").dependencies)
  /\ "B" \in Range(RecordOf(dps, "c").dependencies)
  /\ Len(result.errors) = 1

(***************************************************************************)
(* markOne run by two processes on the same project root                   *)
(***************************************************************************)
Processes == {"p1", "p2"}

\* a process that is about to call markOne(root, taskId)
startOf(taskId) ==
  [pc |-> "start", taskId |-> taskId, yadasmith |-> None, result |-> None,
   readAt |-> 0, wroteAt |-> 0]

\* task.status = 'completed' and the new compiledAt, on the plan in memory
completeTask(yadasmith, taskId, now) ==
  LET task == findTask(yadasmith, taskId)
  IN [yadasmith EXCEPT !.levels[task[1]].dps[task[2]].status = "completed",
                       !.compiledAt = now]

InitRace ==
  /\ dps \in StoreInputs
  /\ pc = "idle"
  /\ graph = None
  /\ cycleCheck = None
  /\ result = None
  /\ prevResult = None
  /\ clock = 1
  /\ stored \in {None, writeYadasmith(resolve(dps, 0).yadasmith)}
  /\ edited = FALSE
  /\ lastOp = None
  /\ before = None
  /\ opResult = None
  /\ procs \in {[p \in Processes |-> startOf(ids[p])] : ids \in [Processes -> DepIds]}
  /\ leveling = None
  /\ cwd = InRoot

\* Faulty variant of MarkOneRead: the plan is taken as compile produced it, not
\* as the file holds it
MarkOneRead_AsCompiled(p) ==
  /\ procs[p].pc = "start"
  /\ LET yadasmith == IF stored = None THEN None ELSE resolve(dps, 0).yadasmith
     IN procs' = [procs EXCEPT ![p] =
          IF yadasmith = None
          THEN [@ EXCEPT !.pc = "done", !.readAt = clock,
                         !.result = [valid |-> FALSE, errors |-> <<missingFileError>>,
                                     warnings |-> <<>>]]
          ELSE IF findTask(yadasmith, @.taskId) = None
          THEN [@ EXCEPT !.pc = "done", !.readAt = clock,
                         !.result = [valid |-> FALSE,
                                     errors |-> <<[kind |-> "Task not found",
                                                   id |-> procs[p].taskId]>>,
                                     warnings |-> <<>>]]
          ELSE [@ EXCEPT !.pc = "loaded", !.readAt = clock, !.yadasmith = yadasmith]]
  /\ clock' = clock + 1
  /\ UNCHANGED <<dps, pc, graph, cycleCheck, result, prevResult, leveling,
                 stored, lastOp, before, opResult, edited, cwd>>

\* markOne up to the write: the file is read, and the call returns when there
\* is no file or no such task
MarkOneRead(p) ==
  /\ procs[p].pc = "start"
  /\ LET yadasmith == readYadasmith(stored)
     IN procs' = [procs EXCEPT ![p] =
          IF yadasmith = None
          THEN [@ EXCEPT !.pc = "done", !.readAt = clock,
                         !.result = [valid |-> FALSE, errors |-> <<missingFileError>>,
                                     warnings |-> <<>>]]
          ELSE IF findTask(yadasmith, @.taskId) = None
          THEN [@ EXCEPT !.pc = "done", !.readAt = clock,
                         !.result = [valid |-> FALSE,
                                     errors |-> <<[kind |-> "Task not found",
                                                   id |-> procs[p].taskId]>>,
                                     warnings |-> <<>>]]
          ELSE [@ EXCEPT !.pc = "loaded", !.readAt = clock, !.yadasmith = yadasmith]]
  /\ clock' = clock + 1
  /\ UNCHANGED <<dps, pc, graph, cycleCheck, result, prevResult, leveling,
                 stored, lastOp, before, opResult, edited, cwd>>

\* the rest of markOne: the plan in memory is changed and written over the file
MarkOneWrite(p) ==
  /\ procs[p].pc = "loaded"
  /\ stored' = writeYadasmith(completeTask(procs[p].yadasmith, procs[p].taskId, clock))
  /\ procs' = [procs EXCEPT ![p] = [@ EXCEPT !.pc = "done", !.wroteAt = clock,
                                                !.result = okResult]]
  /\ clock' = clock + 1
  /\ UNCHANGED <<dps, pc, graph, cycleCheck, result, prevResult, leveling,
                 lastOp, before, opResult, edited, cwd>>

NextRace ==
  \/ \E p \in Processes : MarkOneRead(p)
  \/ \E p \in Processes : MarkOneWrite(p)

SpecRace == InitRace /\ [][NextRace]_vars

\* both calls have returned without error, for different tasks
BothMarked ==
  /\ \A p \in Processes : procs[p].pc = "done" /\ procs[p].result.valid
  /\ procs["p1"].taskId # procs["p2"].taskId

\* one call returned before the other read the file
OneAfterTheOther ==
  \E p, q \in Processes : p # q /\ procs[p].wroteAt < procs[q].readAt

StatusOf(yadasmith, id) == getTaskById(yadasmith, id).status

(***************************************************************************)
(* C23: markOne reads the whole plan, changes it in memory and writes the  *)
(* whole plan, with no lock. Two calls for different existing tasks that   *)
(* run one after the other leave both tasks completed; when their reads    *)
(* and writes interleave, the later write wins: its task is completed and  *)
(* the other task is as both calls read it, so one update is lost.         *)
(***************************************************************************)
C23_SequentialMarksKeepBoth ==
  BothMarked =>
    /\ OneAfterTheOther =>
         \A p \in Processes : StatusOf(StoredPlan, procs[p].taskId) = "completed"
    /\ ~OneAfterTheOther =>
         \A p, q \in Processes :
           procs[p].wroteAt < procs[q].wroteAt =>
             /\ StatusOf(StoredPlan, procs[q].taskId) = "completed"
             /\ StatusOf(StoredPlan, procs[p].taskId) = "pending"

\* the lost update: both calls returned success and one task is still pending
C23_Witness ==
  /\ BothMarked
  /\ ~OneAfterTheOther
  /\ procs["p1"].taskId = "a"
  /\ procs["p2"].taskId = "B"
  /\ StatusOf(StoredPlan, "a") = "pending"
  /\ StatusOf(StoredPlan, "B") = "completed"
  /\ CountStatus(StoredPlan, "completed") = 1

(***************************************************************************)
(* calculateLevels, one pass of its while loop at a time                   *)
(***************************************************************************)
\* Faulty variant of seedQueue: a node with one dependency is queued as well
seedQueue_UpToOne(keys, inDegree) == SelectSeq(keys, LAMBDA id : inDegree[id] <= 1)

\* the nodes the queue starts with: those without dependencies, in Map order
seedQueue(keys, inDegree) == SelectSeq(keys, LAMBDA id : inDegree[id] = 0)

\* how many times id occurs in q
Occurrences(q, id) == Cardinality({k \in 1..Len(q) : q[k] = id})

InitLeveler ==
  /\ \E order \in RecordOrders :
       \E d \in DepAssignments(Range(order)) :
         dps = [i \in 1..Len(order) |->
                  ParsedDP(order[i], d[order[i]], StorePriority(order[i]))]
  /\ pc = "idle"
  /\ graph = None
  /\ cycleCheck = None
  /\ result = None
  /\ prevResult = None
  /\ clock = 1
  /\ stored = None
  /\ lastOp = None
  /\ before = None
  /\ opResult = None
  /\ edited = FALSE
  /\ procs = None
  /\ leveling = None
  /\ cwd = InRoot

\* calculateLevels is entered: the in-degrees, and the queue with its first nodes
CalculateLevelsStart ==
  /\ leveling = None
  /\ LET keys == Keys(dps)
         nodes == wireEdges(dps)
         inDegree == [id \in DOMAIN nodes |-> Len(nodes[id].dependencies)]
         queue == seedQueue(keys, inDegree)
     IN leveling' =
          [inDegree |-> inDegree,
           nodes |-> [id \in DOMAIN nodes |->
                        IF id \in Range(queue) THEN [nodes[id] EXCEPT !.level = 1]
                        ELSE nodes[id]],
           queue |-> queue,
           enqueued |-> [id \in DOMAIN nodes |-> Occurrences(queue, id)],
           dequeued |-> [id \in DOMAIN nodes |-> 0],
           done |-> FALSE]
  /\ UNCHANGED <<dps, pc, graph, cycleCheck, result, prevResult, clock, storeVars, cwd>>

\* one pass of the while loop: the head of the queue and all its dependents
CalculateLevelsStep ==
  /\ leveling # None
  /\ ~leveling.done
  /\ Len(leveling.queue) > 0
  /\ LET currentId == Head(leveling.queue)
         st == visitDependents([inDegree |-> leveling.inDegree,
                                nodes |-> leveling.nodes,
                                queue |-> Tail(leveling.queue)],
                               currentId, leveling.nodes[currentId].dependents, 1)
         pushed == SubSeq(st.queue, Len(leveling.queue), Len(st.queue))
     IN leveling' =
          [inDegree |-> st.inDegree,
           nodes |-> st.nodes,
           queue |-> st.queue,
           enqueued |-> [id \in DOMAIN leveling.enqueued |->
                           leveling.enqueued[id] + Occurrences(pushed, id)],
           dequeued |-> [leveling.dequeued EXCEPT ![currentId] = @ + 1],
           done |-> FALSE]
  /\ UNCHANGED <<dps, pc, graph, cycleCheck, result, prevResult, clock, storeVars, cwd>>

\* the queue is empty: the loop ends and calculateLevels returns
CalculateLevelsReturn ==
  /\ leveling # None
  /\ ~leveling.done
  /\ Len(leveling.queue) = 0
  /\ leveling' = [leveling EXCEPT !.done = TRUE]
  /\ UNCHANGED <<dps, pc, graph, cycleCheck, result, prevResult, clock, storeVars, cwd>>

NextLeveler ==
  \/ CalculateLevelsStart
  \/ CalculateLevelsStep
  \/ CalculateLevelsReturn

SpecLeveler == InitLeveler /\ [][NextLeveler]_vars

\* calculateLevels is a synchronous function: once called it runs on until it
\* returns
SpecLevelerFair == SpecLeveler /\ WF_vars(NextLeveler)

LevelerReturned == leveling # None /\ leveling.done

\* what holds of the loop's locals at every pass
LevelerCounts ==
  leveling # None =>
    /\ \A id \in DOMAIN leveling.nodes :
         /\ leveling.enqueued[id] <= 1
         /\ leveling.dequeued[id] <= leveling.enqueued[id]
         /\ leveling.dequeued[id] + Occurrences(leveling.queue, id)
              = leveling.enqueued[id]
    /\ leveling.done =>
         /\ leveling.queue = <<>>
         /\ leveling.nodes = calculateLevels(Keys(dps), wireEdges(dps))
         /\ ~HasCycle(dps) =>
              \A id \in DOMAIN leveling.nodes :
                /\ leveling.inDegree[id] = 0
                /\ leveling.dequeued[id] = 1
                /\ leveling.nodes[id].level >= 1

(***************************************************************************)
(* C24: the while loop of calculateLevels ends for every record set, with  *)
(* or without cycles, and no node is pushed on the queue more than once.   *)
(* When the records have no cycle, every node's remaining in-degree        *)
(* reaches zero, every node is taken off the queue exactly once, and every *)
(* node ends with a level of 1 or more.                                    *)
(***************************************************************************)
C24_LevelerTerminates == []LevelerCounts /\ <>LevelerReturned

\* three records in a chain with a shortcut, leveled 1, 2 and 3
C24_Witness ==
  /\ LevelerReturned
  /\ Len(dps) = 3
  /\ RecordOf(dps, "a").dependencies = <<>>
  /\ RecordOf(dps, "B").dependencies = <<"a">>
  /\ RecordOf(dps, "c").dependencies = <<"a", "B">>
  /\ leveling.nodes["c"].level = 3
  /\ \A id \in Ids : leveling.dequeued[id] = 1

(***************************************************************************)
(* The command line: yada --mark <id>                                      *)
(***************************************************************************)
\* args[++i] when --mark is the last argument
NoArgument == ""

\* the first pending Entry of the plan, None when there is none
firstPending(yadasmith) ==
  LET entries == Entries(yadasmith)
      pending == {k \in 1..Len(entries) : entries[k].status = "pending"}
  IN IF pending = {} THEN None
     ELSE entries[CHOOSE k \in pending : \A j \in pending : k <= j]

\* the mark command: the file afterwards, the exit status, the task shown as
\* marked and the task of the "Next:" hint
mark(file, id, now) ==
  LET failed == [file |-> file, exit |-> 1, task |-> None, nextTask |-> None]
  IN IF id = NoArgument THEN failed
     ELSE LET yadasmith == readYadasmith(file)
          IN IF yadasmith = None THEN failed
             ELSE LET task == getTaskById(yadasmith, id)
                  IN IF task = None THEN failed
                     ELSE LET r == markOne(file, id, now)
                          IN IF ~r.result.valid
                             THEN [failed EXCEPT !.file = r.file]
                             ELSE [file |-> r.file, exit |-> 0, task |-> task,
                                   nextTask |-> firstPending(yadasmith)]

\* runCli with the arguments --mark id
RunCliMark(id) ==
  /\ clock <= MaxOps
  /\ \E r \in {mark(stored, id, clock)} :
       /\ stored' = r.file
       /\ opResult' = [exit |-> r.exit, task |-> r.task, nextTask |-> r.nextTask]
  /\ lastOp' = [name |-> "mark", id |-> id]
  /\ before' = stored
  /\ clock' = clock + 1
  /\ UNCHANGED <<dps, pc, graph, cycleCheck, result, prevResult, procs, leveling, edited, cwd>>

NextCli == \E id \in DepIds \cup {NoArgument} : RunCliMark(id)

SpecCli == InitStore /\ [][NextCli]_vars

(***************************************************************************)
(* C25: yada --mark <id> marks tasks till the given id: after it succeeds  *)
(* on an existing identifier T, every Entry up to and including T in the   *)
(* stored plan's order is completed.                                       *)
(***************************************************************************)
C25_CliMarksThroughTarget ==
  (Called("mark") /\ opResult.exit = 0) =>
    \A k \in 1..FlatPosition(StoredPlan, lastOp.id) :
      Statuses(StoredPlan)[k] = "completed"

\* what the command does: on success the one Entry T is completed and every
\* other Entry keeps its status, as markOne leaves the plan; on failure the
\* file is as it was
C25_CliMarksOnlyTarget ==
  Called("mark") =>
    /\ opResult.exit = 0 =>
         /\ CalledOnPresent("mark", lastOp.id)
         /\ stored = markOne(before, lastOp.id, clock - 1).file
         /\ \A k \in 1..Len(Entries(StoredPlan)) :
              Statuses(StoredPlan)[k] =
                IF k = FlatPosition(StoredPlan, lastOp.id) THEN "completed"
                ELSE Statuses(PlanBefore)[k]
    /\ opResult.exit = 1 => stored = before

\* the command succeeded on the last Entry of a freshly compiled plan and the
\* Entries before it are still pending
C25_Witness ==
  /\ Called("mark")
  /\ opResult.exit = 0
  /\ ~edited
  /\ FlatPosition(StoredPlan, lastOp.id) = 3
  /\ Statuses(StoredPlan) = <<"pending", "pending", "completed">>

(***************************************************************************)
(* compile on records with sub-tasks                                       *)
(***************************************************************************)
\* names of sub-tasks, as the files give them
EnvName == <<"e", "n", "v">>
InitName == <<"i", "n", "i", "t">>
DepsName == <<"d", "e", "p", "s">>

\* text ":" text
CrossReference(dpName, subdpName) == dpName \o <<":">> \o subdpName

\* the entries a sub-task's dependencies list may hold: the numeric key of the
\* sibling, its name, a record's identifier, and cross-references that start
\* with an identifier, a display name or neither
SubdpDependencyValues ==
  {[int |-> 1],
   [str |-> InitName],
   [str |-> Chars("a")],
   [str |-> CrossReference(Chars("a"), EnvName)],
   [str |-> CrossReference(Chars(DisplayName("a")), EnvName)],
   [str |-> CrossReference(Chars(DisplayName("a")), InitName)],
   [str |-> CrossReference(Chars(MissingId), EnvName)],
   [str |-> CrossReference(Chars(DisplayName("B")), InitName)]}

\* the subdps section of a.yada when it has one: a single sub-task
RawSubdpsOfA ==
  [order |-> FALSE,
   items |-> <<[name |-> [str |-> EnvName], type |-> "specification",
                workflow |-> <<[str |-> <<"g", "o">>]>>]>>]

\* the subdps section of B.yada: two ordered sub-tasks, the second with the
\* given dependencies
RawSubdpsOfB(dependencies) ==
  [order |-> TRUE,
   items |-> <<[name |-> [str |-> InitName], type |-> "specification",
                workflow |-> <<[str |-> <<"g", "o">>]>>],
               [name |-> [str |-> DepsName], type |-> "dependency",
                dependencies |-> dependencies]>>]

InitSubdps ==
  /\ \E rawA \in {None, RawSubdpsOfA},
        dependencies \in SeqsUpTo(SubdpDependencyValues, MaxSubDeps) :
       dps = <<ParsedDP("a", <<>>, 10) @@ [subdps |-> parseSubDPs(rawA)],
               ParsedDP("B", <<"a">>, 50)
                 @@ [subdps |-> parseSubDPs(RawSubdpsOfB(dependencies))]>>
  /\ pc = "idle"
  /\ graph = None
  /\ cycleCheck = None
  /\ result = None
  /\ prevResult = None
  /\ clock = 1
  /\ stored \in {None, PriorPlan}
  /\ edited = FALSE
  /\ lastOp = None
  /\ before = None
  /\ opResult = None
  /\ procs = None
  /\ leveling = None
  /\ cwd = InRoot

NextSubdps ==
  \/ Compile
  \/ ReadYadasmith

SpecSubdps == InitSubdps /\ [][NextSubdps]_vars

\* every dependency a sub-task of the records declares, with its record and
\* its sub-task
SubdpDependencies ==
  UNION {UNION {{[dp |-> dps[i], num |-> num, dep |-> dep] :
                   dep \in IF "dependencies" \in DOMAIN subdpsOf(dps[i]).items[num]
                           THEN Range(subdpsOf(dps[i]).items[num].dependencies)
                           ELSE {}} :
                 num \in DOMAIN subdpsOf(dps[i]).items} :
         i \in 1..Len(dps)}

\* compile printed the error that r.dep does not exist
Reported(r) ==
  \E k \in 1..Len(opResult.errors) :
    opResult.errors[k] =
      [kind |-> "Subdp depends on non-existent", id |-> r.dp.id,
       subdp |-> subdpsOf(r.dp).items[r.num].name, dep |-> r.dep]

\* r.dep is the numeric key of another sub-task of the same record
BySiblingKey(r) ==
  \E k \in DOMAIN subdpsOf(r.dp).items \ {r.num} : r.dep = NumberToString(k)

\* r.dep is the name of a sub-task of the same record, or a record's identifier
BySiblingNameOrRecordId(r) ==
  \/ \E k \in DOMAIN subdpsOf(r.dp).items : subdpsOf(r.dp).items[k].name = r.dep
  \/ \E i \in 1..Len(dps) : Chars(dps[i].id) = r.dep

\* the text before and the text after the first colon
ParentOf(dep) == split(dep, 1, <<>>)[1]
SubdpOf(dep) == split(dep, 1, <<>>)[2]

\* P:S where P is the identifier of a record that has a sub-task named S
ByParentIdentifier(r) ==
  /\ includesColon(r.dep)
  /\ \E i \in 1..Len(dps) :
       /\ Chars(dps[i].id) = ParentOf(r.dep)
       /\ \E k \in DOMAIN subdpsOf(dps[i]).items :
            subdpsOf(dps[i]).items[k].name = SubdpOf(r.dep)

\* P:S where P is the display name of a record, and the first record of that
\* name has a sub-task named S
ByParentDisplayName(r) ==
  /\ includesColon(r.dep)
  /\ \E i \in 1..Len(dps) :
       /\ Chars(dps[i].name) = ParentOf(r.dep)
       /\ \A j \in 1..(i - 1) : Chars(dps[j].name) # ParentOf(r.dep)
       /\ \E k \in DOMAIN subdpsOf(dps[i]).items :
            subdpsOf(dps[i]).items[k].name = SubdpOf(r.dep)

(***************************************************************************)
(* C26: a sub-task whose dependencies name a sibling sub-task by the       *)
(* sibling's numeric key, as sub-task 2 of the README quick start does     *)
(* with `1`, passes validation: validateAll reports no error and compile   *)
(* goes on to write the plan.                                              *)
(***************************************************************************)
C26_SiblingKeyAccepted ==
  (/\ Called("compile")
   /\ SubdpDependencies # {}
   /\ \A r \in SubdpDependencies : BySiblingKey(r)) =>
    /\ validateAll(dps).valid
    /\ opResult.exit = 0
    /\ stored = writeYadasmith(opResult.yadasmith)

\* what the validator does with such a dependency: unless the digits are also
\* a sibling's name or a record's identifier, it is reported as non-existent,
\* compile fails and the stored plan stays as it was
C26_SiblingKeyRejected ==
  Called("compile") =>
    \A r \in SubdpDependencies :
      (BySiblingKey(r) /\ ~BySiblingNameOrRecordId(r)) =>
        /\ ~validateAll(dps).valid
        /\ Reported(r)
        /\ opResult.exit = 1
        /\ stored = before

\* the quick start's sub-tasks: the second lists the dependency 1 and nothing
\* else, and compile fails on it over an earlier plan
C26_Witness ==
  /\ Called("compile")
  /\ subdpsOf(dps[2]).items[2].dependencies = <<<<"1">>>>
  /\ subdpsOf(dps[2]).items[1].name = InitName
  /\ opResult.exit = 1
  /\ Len(opResult.errors) = 1
  /\ opResult.errors[1].dep = <<"1">>
  /\ before = PriorPlan
  /\ stored = PriorPlan

(***************************************************************************)
(* C28: a sub-task dependency of the form P:S is accepted exactly when P   *)
(* is the identifier of an existing Task Record that has a sub-task named  *)
(* S; otherwise, unless it names a sibling sub-task or a record            *)
(* identifier, it is reported as an error.                                 *)
(***************************************************************************)
C28_CrossReferenceByIdentifier ==
  Called("compile") =>
    \A r \in SubdpDependencies :
      (includesColon(r.dep) /\ ~BySiblingNameOrRecordId(r)) =>
        (~Reported(r) <=> ByParentIdentifier(r))

\* what the validator does with P:S: P is compared with the display names, and
\* the reference is accepted exactly when the first record of that display name
\* has a sub-task named S
C28_CrossReferenceByDisplayName ==
  Called("compile") =>
    \A r \in SubdpDependencies :
      (includesColon(r.dep) /\ ~BySiblingNameOrRecordId(r)) =>
        (~Reported(r) <=> ByParentDisplayName(r))

\* a:env and Alpha:env declared side by side while a.yada, named Alpha, has the
\* sub-task env: only the reference by identifier is reported
C28_Witness ==
  /\ Called("compile")
  /\ subdpsOf(dps[1]).items # <<>>
  /\ subdpsOf(dps[2]).items[2].dependencies =
       <<CrossReference(Chars("a"), EnvName),
         CrossReference(Chars(DisplayName("a")), EnvName)>>
  /\ opResult.exit = 1
  /\ Len(opResult.errors) = 1
  /\ opResult.errors[1].dep = CrossReference(Chars("a"), EnvName)

(***************************************************************************)
(* The mark operations and getStatus on a compiled plan                    *)
(***************************************************************************)
NextMarks ==
  \/ \E id \in DepIds : MarkOne(id)
  \/ \E id \in DepIds : MarkUntil(id)
  \/ ResetAll
  \/ GetStatus

SpecMarks == InitStore /\ [][NextMarks]_vars

\* a plan without its statuses and its timestamp
Skeleton(yadasmith) ==
  [version |-> yadasmith.version,
   levels |-> [i \in 1..Len(yadasmith.levels) |->
                 [level |-> yadasmith.levels[i].level,
                  dps |-> [k \in 1..Len(yadasmith.levels[i].dps) |->
                             [ref |-> yadasmith.levels[i].dps[k].ref,
                              id |-> yadasmith.levels[i].dps[k].id,
                              level |-> yadasmith.levels[i].dps[k].level]]]]]

(***************************************************************************)
(* C29: markOne, markUntil and resetAll change nothing in the stored plan  *)
(* but Entry statuses and the timestamp: the version, the Levels and their *)
(* numbers, the identifiers and refs inside each Level and each Entry's    *)
(* level field stay as compile wrote them, and each Entry's level field is *)
(* the number of the Level that holds it.                                  *)
(***************************************************************************)
C29_MarksKeepPlanStructure ==
  /\ stored # None =>
       /\ Skeleton(StoredPlan) = Skeleton(resolve(dps, 0).yadasmith)
       /\ \A i \in 1..Len(StoredPlan.levels) :
            \A k \in 1..Len(StoredPlan.levels[i].dps) :
              StoredPlan.levels[i].dps[k].level = StoredPlan.levels[i].level
  /\ (lastOp # None /\ lastOp.name \in {"markOne", "markUntil", "resetAll"}) =>
       IF before = None THEN stored = None
       ELSE /\ stored # None
            /\ Skeleton(StoredPlan) = Skeleton(PlanBefore)

\* markUntil on a plan of three Levels completed the first Level's Entry and
\* reverted the third's
C29_Witness ==
  /\ Called("markUntil")
  /\ before # None
  /\ Len(StoredPlan.levels) = 3
  /\ Statuses(PlanBefore) = <<"pending", "pending", "completed">>
  /\ Statuses(StoredPlan) = <<"completed", "pending", "pending">>
  /\ StoredPlan.compiledAt # PlanBefore.compiledAt

(***************************************************************************)
(* C30: whatever markOne, markUntil and resetAll calls were made on a plan *)
(* compiled from records without a cycle, the nextTask getStatus reports,  *)
(* when there is one, has all its dependencies completed, even though      *)
(* markOne may have completed an Entry whose dependencies are pending.     *)
(***************************************************************************)
C30_NextTaskDependenciesCompleted ==
  (Called("getStatus") /\ stored # None /\ opResult.nextTask # None) =>
    /\ opResult.nextTask.status # "completed"
    /\ \A d \in ResolvedDeps(dps, opResult.nextTask.id) :
         StatusOf(StoredPlan, d) = "completed"

\* after a markOne, c is completed while its dependency B is pending; the
\* nextTask is B, whose own dependency a is completed
C30_Witness ==
  /\ Called("getStatus")
  /\ stored # None
  /\ clock = 3
  /\ PlanBefore.compiledAt = 1
  /\ "B" \in ResolvedDeps(dps, "c")
  /\ ResolvedDeps(dps, "B") = {"a"}
  /\ StatusOf(StoredPlan, "a") = "completed"
  /\ StatusOf(StoredPlan, "B") = "pending"
  /\ StatusOf(StoredPlan, "c") = "completed"
  /\ opResult.nextTask.id = "B"

(***************************************************************************)
(* markUntil and resetAll on a freshly compiled plan                       *)
(***************************************************************************)
\* no plan, or the plan as compile wrote it
InitFresh == InitStore /\ ~edited

NextThrough ==
  \/ \E id \in DepIds : MarkUntil(id)
  \/ ResetAll

SpecThrough == InitFresh /\ [][NextThrough]_vars

\* the first n Entries in flattened order are the completed ones
CompletedPrefix(yadasmith, n) ==
  \A k \in 1..Len(Entries(yadasmith)) :
    (Statuses(yadasmith)[k] = "completed") <=> (k <= n)

(***************************************************************************)
(* C31: from a freshly compiled plan, with markUntil and resetAll only,    *)
(* the completed Entries are always the first n of the flattened order for *)
(* some n >= 0, so no Entry is completed while one of its dependencies is  *)
(* not.                                                                    *)
(***************************************************************************)
C31_CompletedEntriesFormPrefix ==
  stored # None =>
    /\ \E n \in 0..Len(Entries(StoredPlan)) : CompletedPrefix(StoredPlan, n)
    /\ \A id \in KnownIds(dps) :
         StatusOf(StoredPlan, id) = "completed" =>
           \A d \in ResolvedDeps(dps, id) : StatusOf(StoredPlan, d) = "completed"

\* markUntil on the second Entry, after a markUntil had completed all three
C31_Witness ==
  /\ Called("markUntil")
  /\ clock = 3
  /\ before # None
  /\ Statuses(PlanBefore) = <<"completed", "completed", "completed">>
  /\ Statuses(StoredPlan) = <<"completed", "completed", "pending">>
  /\ ResolvedDeps(dps, "c") # {}

(***************************************************************************)
(* The three mutations of the state module on any stored plan              *)
(***************************************************************************)
NextMutations ==
  \/ \E id \in DepIds : MarkOne(id)
  \/ \E id \in DepIds : MarkUntil(id)
  \/ ResetAll

SpecMutations == InitStore /\ [][NextMutations]_vars

\* every Entry of the plan is pending or completed
OnlyPendingOrCompleted(yadasmith) ==
  \A k \in 1..Len(Entries(yadasmith)) :
    Statuses(yadasmith)[k] \in {"pending", "completed"}

\* before id everything is completed and after id nothing is
AtFrontier(yadasmith, id) ==
  \A k \in 1..Len(Entries(yadasmith)) :
    /\ k < FlatPosition(yadasmith, id) => Statuses(yadasmith)[k] = "completed"
    /\ k > FlatPosition(yadasmith, id) => Statuses(yadasmith)[k] # "completed"

(***************************************************************************)
(* C32: on a stored plan whose statuses are pending or completed and that  *)
(* holds T, markOne(T) and markUntil(T) leave the same statuses exactly    *)
(* when, before the call, every Entry before T is completed and no Entry   *)
(* after T is; markOne never turns a completed Entry into a pending one.   *)
(***************************************************************************)
C32_MarkOneEqualsMarkUntilAtFrontier ==
  \A t \in Ids :
    ( /\ CalledOnPresent("markOne", t) \/ CalledOnPresent("markUntil", t)
      /\ OnlyPendingOrCompleted(PlanBefore) ) =>
      LET one == markOne(before, t, clock - 1).file
          through == markUntil(before, t, clock - 1).file
      IN /\ stored = IF lastOp.name = "markOne" THEN one ELSE through
         /\ (Statuses(readYadasmith(one)) = Statuses(readYadasmith(through)))
              <=> AtFrontier(PlanBefore, t)
         /\ \A k \in 1..Len(Entries(PlanBefore)) :
              Statuses(PlanBefore)[k] = "completed" =>
                Statuses(readYadasmith(one))[k] = "completed"

\* markUntil on the first Entry of a plan whose other Entries were completed:
\* fewer Entries are completed afterwards, where markOne would have kept them
C32_Witness ==
  \E t \in Ids :
    /\ CalledOnPresent("markUntil", t)
    /\ Statuses(PlanBefore) = <<"pending", "completed", "completed">>
    /\ FlatPosition(PlanBefore, t) = 1
    /\ CountStatus(StoredPlan, "completed") < CountStatus(PlanBefore, "completed")
    /\ Statuses(readYadasmith(markOne(before, t, clock - 1).file))
         = <<"completed", "completed", "completed">>

(***************************************************************************)
(* C35: on a stored plan that holds T, a second markOne(T), a second       *)
(* markUntil(T) or a second resetAll leaves the statuses the first call    *)
(* left.                                                                   *)
(***************************************************************************)
C35_MutationsIdempotent ==
  /\ \A t \in Ids :
       /\ CalledOnPresent("markOne", t) =>
            Statuses(readYadasmith(markOne(stored, t, clock).file))
              = Statuses(StoredPlan)
       /\ CalledOnPresent("markUntil", t) =>
            Statuses(readYadasmith(markUntil(stored, t, clock).file))
              = Statuses(StoredPlan)
  /\ (Called("resetAll") /\ before # None) =>
       Statuses(readYadasmith(resetAll(stored, clock).file)) = Statuses(StoredPlan)

\* markUntil(T) after a call that had already left T's statuses: a third
\* Entry stays pending and only the timestamp moves
C35_Witness ==
  \E t \in Ids :
    /\ CalledOnPresent("markUntil", t)
    /\ clock = 3
    /\ FlatPosition(PlanBefore, t) = 2
    /\ Statuses(StoredPlan) = <<"completed", "completed", "pending">>
    /\ Statuses(PlanBefore) = Statuses(StoredPlan)
    /\ before # stored

(***************************************************************************)
(* resolve() on records whose identifiers hold an accented letter          *)
(***************************************************************************)
\* file base names: a, and U+00E9 written as one code unit and as e followed
\* by U+0301 (two different file names)
AccentedIds == {"a", "e-acute", "e+acute"}

\* records over AccentedIds in every order, each with at most one dependency
AccentedInputs ==
  UNION {{[i \in 1..Len(order) |-> ParsedDP(order[i], d[order[i]], p[order[i]])] :
            d \in [Range(order) -> SeqsUpTo(AccentedIds \cup {MissingId}, 1)],
            p \in [Range(order) -> PriorityValues]} :
           order \in {q \in SeqsUpTo(AccentedIds, Cardinality(AccentedIds)) :
                        \A i, j \in 1..Len(q) : i # j => q[i] # q[j]}}

InitAccented ==
  /\ dps \in AccentedInputs
  /\ pc = "idle"
  /\ graph = None
  /\ cycleCheck = None
  /\ result = None
  /\ prevResult = None
  /\ clock = 1
  /\ stored = None
  /\ lastOp = None
  /\ before = None
  /\ opResult = None
  /\ edited = FALSE
  /\ procs = None
  /\ leveling = None
  /\ cwd = InRoot

SpecAccented == InitAccented /\ [][Next]_vars

\* the same records supplied in every order
Reorderings(records) ==
  {[i \in 1..Len(records) |-> records[f[i]]] : f \in Permutations(1..Len(records))}

\* the identifiers of each Level, without their order
Grouping(yadasmith) ==
  [i \in 1..Len(yadasmith.levels) |->
     [level |-> yadasmith.levels[i].level,
      ids |-> {yadasmith.levels[i].dps[k].id : k \in 1..Len(yadasmith.levels[i].dps)}]]

\* two records of one priority whose identifiers the collation does not tell
\* apart
CollationTie(records) ==
  \E i, j \in 1..Len(records) :
    /\ i # j
    /\ records[i].priority = records[j].priority
    /\ localeCompare(records[i].id, records[j].id) = 0

\* every record is one Entry of the plan, under its display name
EachRecordOnce(records, yadasmith) ==
  /\ Len(Entries(yadasmith)) = Len(records)
  /\ \A i \in 1..Len(records) :
       \E k \in 1..Len(Entries(yadasmith)) :
         /\ Entries(yadasmith)[k].id = records[i].id
         /\ Entries(yadasmith)[k].ref = records[i].name

(***************************************************************************)
(* C33, as stated: the plan resolve returns for an acyclic record set      *)
(* holds every record's identifier once, with ref its display name, and    *)
(* is the same plan in whatever order the records are supplied.            *)
(***************************************************************************)
C33_PlanIndependentOfRecordOrder ==
  (PlanProduced /\ Len(dps) > 0) =>
    /\ EachRecordOnce(dps, result.yadasmith)
    /\ \A records \in Reorderings(dps) :
         resolve(records, clock).yadasmith.levels = result.yadasmith.levels

(***************************************************************************)
(* C33, what holds: every record is one Entry under its display name, the  *)
(* Levels hold the same identifiers in whatever order the records are      *)
(* supplied, and the order inside the Levels is the same too unless two    *)
(* records of one priority have identifiers that localeCompare takes for   *)
(* equal.                                                                  *)
(***************************************************************************)
C33_GroupingIndependentOfRecordOrder ==
  (PlanProduced /\ Len(dps) > 0) =>
    /\ EachRecordOnce(dps, result.yadasmith)
    /\ \A records \in Reorderings(dps) :
         /\ Grouping(resolve(records, clock).yadasmith) = Grouping(result.yadasmith)
         /\ ~CollationTie(dps) =>
              resolve(records, clock).yadasmith.levels = result.yadasmith.levels

\* three records supplied against the order of their plan: two Levels, and
\* the accented identifiers in one Level told apart by their priorities
C33_Witness ==
  /\ PlanProduced
  /\ Len(dps) = 3
  /\ Len(result.yadasmith.levels) = 2
  /\ getFlatTaskOrder(result.yadasmith) = <<"e+acute", "e-acute", "a">>
  /\ [i \in 1..3 |-> dps[i].id] = <<"a", "e-acute", "e+acute">>
  /\ ~CollationTie(dps)

(***************************************************************************)
(* resolve() on the records a, B, c supplied in this order                 *)
(***************************************************************************)
InitOrdered ==
  /\ \E n \in 0..Cardinality(Ids) :
       \E d \in DepAssignments(Range(SubSeq(<<"a", "B", "c">>, 1, n))) :
         dps = [i \in 1..n |->
                  ParsedDP(<<"a", "B", "c">>[i], d[<<"a", "B", "c">>[i]],
                           StorePriority(<<"a", "B", "c">>[i]))]
  /\ pc = "idle"
  /\ graph = None
  /\ cycleCheck = None
  /\ result = None
  /\ prevResult = None
  /\ clock = 1
  /\ stored = None
  /\ lastOp = None
  /\ before = None
  /\ opResult = None
  /\ edited = FALSE
  /\ procs = None
  /\ leveling = None
  /\ cwd = InRoot

SpecOrdered == InitOrdered /\ [][Next]_vars

countPending(yadasmith) == CountStatus(yadasmith, "pending")

\* isFullyCompleted
isFullyCompleted(yadasmith) == countPending(yadasmith) = 0

RECURSIVE nextPendingFrom_Last(_, _)
\* Faulty variant of nextPendingFrom: the last pending Entry is returned
nextPendingFrom_Last(entries, k) ==
  IF k > Len(entries) THEN None
  ELSE LET later == nextPendingFrom_Last(entries, k + 1)
       IN IF later # None THEN later
          ELSE IF entries[k].status = "pending" THEN entries[k] ELSE None

RECURSIVE nextPendingFrom(_, _)
\* the loops of getNextTask from the k-th Entry on
nextPendingFrom(entries, k) ==
  IF k > Len(entries) THEN None
  ELSE IF entries[k].status = "pending" THEN entries[k]
  ELSE nextPendingFrom(entries, k + 1)

\* getNextTask: the first pending Entry, None for undefined
getNextTask(yadasmith) == nextPendingFrom(Entries(yadasmith), 1)

\* the mark operations and getStatus on a freshly compiled plan
SpecFresh == InitFresh /\ [][NextMarks]_vars

(***************************************************************************)
(* C36: in every state reached from a freshly compiled plan by markOne,    *)
(* markUntil and resetAll, getNextTask names the Entry getStatus returns   *)
(* as nextTask, countPending is getStatus's pending, and isFullyCompleted  *)
(* holds exactly when getStatus's completed equals its total.              *)
(***************************************************************************)
C36_HelpersAgreeWithGetStatus ==
  stored # None =>
    LET status == getStatus(stored)
    IN /\ getNextTask(StoredPlan) = status.nextTask
       /\ countPending(StoredPlan) = status.pending
       /\ isFullyCompleted(StoredPlan) <=> (status.completed = status.total)
       /\ Called("getStatus") => opResult = status

\* getStatus after a markUntil left the last Entry pending behind two
\* completed ones
C36_Witness ==
  /\ Called("getStatus")
  /\ stored # None
  /\ Statuses(StoredPlan) = <<"completed", "completed", "pending">>
  /\ opResult.nextTask = Entries(StoredPlan)[3]
  /\ countPending(StoredPlan) = 1
  /\ ~isFullyCompleted(StoredPlan)

\* the line the mark command prints in place of a hint
AllCompleted == "All tasks completed! Great job!"

\* the identifier the "Next:" hint of the mark command names, or the line
\* printed in its place
HintedId ==
  IF opResult.nextTask = None THEN AllCompleted ELSE opResult.nextTask.id

\* the identifier of the first pending Entry of a plan, AllCompleted without
\* one
FirstPendingId(yadasmith) ==
  IF firstPending(yadasmith) = None THEN AllCompleted
  ELSE firstPending(yadasmith).id

(***************************************************************************)
(* C37, as stated: after yada --mark T succeeds, the hint names the first  *)
(* Entry that is pending in the plan as stored after the mark, never T,    *)
(* and "All tasks completed" is printed exactly when the stored plan has   *)
(* no pending Entry.                                                       *)
(***************************************************************************)
C37_HintFromPlanAfterMark ==
  (Called("mark") /\ opResult.exit = 0) =>
    /\ HintedId = FirstPendingId(StoredPlan)
    /\ HintedId # lastOp.id

(***************************************************************************)
(* C37, what the command does: the hint names the first Entry that was     *)
(* pending in the plan as read before the mark, which is T itself when     *)
(* T was that Entry, and "All tasks completed" is printed exactly when no  *)
(* Entry was pending before the mark.                                      *)
(***************************************************************************)
C37_HintFromPlanBeforeMark ==
  (Called("mark") /\ opResult.exit = 0) =>
    /\ HintedId = FirstPendingId(PlanBefore)
    /\ (HintedId = lastOp.id) <=> (FirstPendingId(PlanBefore) = lastOp.id)
    /\ (HintedId = AllCompleted) <=> (CountStatus(PlanBefore, "pending") = 0)

\* the command marked the only pending Entry of the plan and the hint names
\* this Entry again, where nothing is pending in the stored plan
C37_Witness ==
  /\ Called("mark")
  /\ opResult.exit = 0
  /\ Statuses(PlanBefore) = <<"completed", "completed", "pending">>
  /\ Statuses(StoredPlan) = <<"completed", "completed", "completed">>
  /\ HintedId = lastOp.id
  /\ FirstPendingId(StoredPlan) = AllCompleted

(***************************************************************************)
(* yada reset                                                              *)
(***************************************************************************)
\* argument lists that select the reset command
ResetArgs ==
  {<<"reset">>, <<"reset", "--verbose">>, <<"reset", "--force">>,
   <<"--force", "reset">>}

\* the options runCli collects from the arguments
cliOptions(args) ==
  LET commands == SelectSeq(args, LAMBDA arg : arg \in {"compile", "status", "reset"})
  IN [command |-> IF Len(commands) = 0 THEN "compile" ELSE commands[Len(commands)],
      force |-> "--force" \in Range(args),
      json |-> "--json" \in Range(args),
      verbose |-> "--verbose" \in Range(args) \/ "-V" \in Range(args)]

\* Faulty variant of reset: the plan is reset without --force too
reset_IgnoresForce(file, options, now) ==
  IF ~hasYadasmith(file) THEN [file |-> file, reset |-> FALSE]
  ELSE [file |-> resetAll(file, now).file, reset |-> TRUE]

\* the reset command: the file afterwards and whether resetAll was called
reset(file, options, now) ==
  IF ~hasYadasmith(file) THEN [file |-> file, reset |-> FALSE]
  ELSE IF ~options.force THEN [file |-> file, reset |-> FALSE]
  ELSE [file |-> resetAll(file, now).file, reset |-> TRUE]

\* runCli with arguments that select reset
RunCliReset(args) ==
  /\ clock <= MaxOps
  /\ cliOptions(args).command = "reset"
  /\ \E r \in {reset(stored, cliOptions(args), clock)} :
       /\ stored' = r.file
       /\ opResult' = [reset |-> r.reset]
  /\ lastOp' = [name |-> "reset", id |-> None, force |-> cliOptions(args).force]
  /\ before' = stored
  /\ clock' = clock + 1
  /\ UNCHANGED <<dps, pc, graph, cycleCheck, result, prevResult, procs, leveling, edited, cwd>>

NextReset == \E args \in ResetArgs : RunCliReset(args)

SpecReset == InitStore /\ [][NextReset]_vars

PossiblePaths == <<"cwd", "cwd/yada", "parent">>

\* getProjectRoot: the first of the possible paths that holds a dps
\* directory, process.cwd() when none does
getProjectRoot(withDps) ==
  LET hits == SelectSeq(PossiblePaths, LAMBDA path : path \in withDps)
  IN IF Len(hits) = 0 THEN "cwd" ELSE hits[1]

\* the .yadasmith file under process.cwd()
CwdFile == IF cwd.projectRoot = "cwd" THEN stored ELSE cwd.file

\* argument lists that select the status command
StatusArgs == {<<"status">>, <<"status", "--json">>, <<"--verbose", "status">>}

\* formatStatus: the figures of the progress box and the breakdown by Level
formatStatus(yadasmith, cwdFile) ==
  LET stats == getStatus(cwdFile)
  IN [found |-> TRUE,
      progress |-> stats,
      levels |-> [i \in 1..Len(yadasmith.levels) |->
                    [level |-> yadasmith.levels[i].level,
                     levelCompleted |->
                       Len(SelectSeq(yadasmith.levels[i].dps,
                                     LAMBDA e : e.status = "completed")),
                     levelTotal |-> Len(yadasmith.levels[i].dps),
                     dps |-> yadasmith.levels[i].dps]]]

\* Faulty variant of status: the progress of --json is read under process.cwd()
status_JsonFromCwd(file, cwdFile, options) ==
  LET yadasmith == readYadasmith(file)
  IN IF yadasmith = None
     THEN [found |-> FALSE, progress |-> None, levels |-> <<>>]
     ELSE IF options.json
     THEN [found |-> TRUE,
           progress |-> getStatus(cwdFile),
           levels |-> <<>>,
           tasks |-> Entries(yadasmith)]
     ELSE formatStatus(yadasmith, cwdFile)

\* the status command on the plan file of the project root: what it prints
status(file, cwdFile, options) ==
  LET yadasmith == readYadasmith(file)
  IN IF yadasmith = None
     THEN [found |-> FALSE, progress |-> None, levels |-> <<>>]
     ELSE IF options.json
     THEN [found |-> TRUE,
           progress |-> getStatus(file),
           levels |-> <<>>,
           tasks |-> Entries(yadasmith)]
     ELSE formatStatus(yadasmith, cwdFile)

\* records of the project root's plan; a plan under process.cwd() belongs to
\* another project of the same shape or to none
InitWorkdir ==
  /\ dps \in StoreInputs
  /\ pc = "idle"
  /\ graph = None
  /\ cycleCheck = None
  /\ result = None
  /\ prevResult = None
  /\ clock = 1
  /\ \E compiled \in {resolve(dps, 0)} :
       /\ compiled.errors = <<>>
       /\ \/ stored = None /\ edited = FALSE
          \/ stored = writeYadasmith(compiled.yadasmith) /\ edited = FALSE
          \/ \E statuses \in [1..Len(dps) -> {"pending", "completed"}] :
               /\ stored = writeYadasmith(
                    [compiled.yadasmith EXCEPT
                       !.levels = withStatuses(@, 1, statuses)])
               /\ edited = TRUE
       /\ \E withDps \in SUBSET Range(PossiblePaths) :
            /\ cwd \in [projectRoot : {getProjectRoot(withDps)},
                        file : {None, writeYadasmith(compiled.yadasmith),
                                writeYadasmith(
                                  [compiled.yadasmith EXCEPT
                                     !.levels = withStatuses(@, 1,
                                       [k \in 1..Len(dps) |-> "completed"])])}]
            /\ cwd.projectRoot = "cwd" => cwd = InRoot
  /\ lastOp = None
  /\ before = None
  /\ opResult = None
  /\ procs = None
  /\ leveling = None

\* runCli with arguments that select status
RunCliStatus(args) ==
  /\ clock <= MaxOps
  /\ cliOptions(args).command = "status"
  /\ opResult' = status(stored, CwdFile, cliOptions(args))
  /\ lastOp' = [name |-> "status", id |-> None, json |-> cliOptions(args).json]
  /\ before' = stored
  /\ clock' = clock + 1
  /\ UNCHANGED <<dps, pc, graph, cycleCheck, result, prevResult, procs, leveling,
                 stored, edited, cwd>>

NextWorkdir == \E args \in StatusArgs : RunCliStatus(args)

SpecWorkdir == InitWorkdir /\ [][NextWorkdir]_vars

\* the figures getStatus computes from the plan of the breakdown
FiguresOfBreakdown(levels) ==
  LET entries == FlattenLevels(levels, 1)
      completed == Len(SelectSeq(entries, LAMBDA e : e.status = "completed"))
      open == SelectSeq(entries, LAMBDA e : e.status # "completed")
  IN [completed |-> completed,
      pending |-> Len(entries) - completed,
      total |-> Len(entries),
      percentComplete |-> percentComplete(completed, Len(entries)),
      nextTask |-> IF Len(open) = 0 THEN None ELSE open[1]]

(***************************************************************************)
(* C39, as stated: yada status for the project root R prints progress      *)
(* figures (completed, total, percent, next task) computed from the plan   *)
(* stored under R, the plan whose breakdown by Level it prints, also when  *)
(* R is not the current working directory.                                 *)
(***************************************************************************)
C39_ProgressOfProjectRootPlan ==
  (Called("status") /\ opResult.found) =>
    /\ opResult.progress = getStatus(stored)
    /\ ~lastOp.json => opResult.progress = FiguresOfBreakdown(opResult.levels)

(***************************************************************************)
(* C39, what the command does: the breakdown by Level is the plan stored   *)
(* under R; the progress figures are those of the plan file under          *)
(* process.cwd(), all zero when there is none, and are those of R's plan   *)
(* with --json or when R is the current working directory.                 *)
(***************************************************************************)
C39_ProgressOfWorkingDirectoryPlan ==
  (Called("status") /\ stored # None) =>
    /\ opResult.found
    /\ opResult.progress = IF lastOp.json THEN getStatus(stored)
                           ELSE getStatus(CwdFile)
    /\ ~lastOp.json =>
         [i \in 1..Len(opResult.levels) |->
            [level |-> opResult.levels[i].level, dps |-> opResult.levels[i].dps]]
           = StoredPlan.levels
    /\ cwd.projectRoot = "cwd" => opResult.progress = getStatus(stored)

\* the project is in ./yada and one of its three Entries is completed; no
\* plan is stored in the working directory and the box shows 0 of 0
C39_Witness ==
  /\ Called("status")
  /\ ~lastOp.json
  /\ opResult.found
  /\ cwd.projectRoot = "cwd/yada"
  /\ cwd.file = None
  /\ Statuses(StoredPlan) = <<"completed", "pending", "pending">>
  /\ opResult.progress.total = 0
  /\ opResult.progress.percentComplete = 0
  /\ Len(FlattenLevels(opResult.levels, 1)) = 3

(***************************************************************************)
(* getStatus on small and on large plans                                   *)
(***************************************************************************)
\* the numbers of Entries of the plans: up to MaxEntries and around
\* LargeEntries
PlanSizes == (1..MaxEntries) \cup ((LargeEntries - 1)..(LargeEntries + 1))

\* the plan of total records in Levels of MaxEntries Entries, each record
\* depending on the one MaxEntries before it; the first completed Entries of
\* the flattened order are completed
LeveledPlan(total, completed) ==
  [version |-> "1.0.0",
   compiledAt |-> 0,
   levels |-> [i \in 1..((total + MaxEntries - 1) \div MaxEntries) |->
                 [level |-> i,
                  dps |-> [j \in 1..Min2(MaxEntries, total - (i - 1) * MaxEntries) |->
                             LET k == (i - 1) * MaxEntries + j
                             IN [ref |-> EntryId(k), id |-> EntryId(k),
                                 status |-> IF k <= completed THEN "completed"
                                            ELSE "pending",
                                 level |-> i]]]]]

InitLarge ==
  /\ \E total \in PlanSizes, completed \in 0..(LargeEntries + 1) :
       /\ completed <= total
       /\ dps = [k \in 1..total |->
                   [id |-> EntryId(k), name |-> EntryId(k), priority |-> 0,
                    dependencies |-> IF k > MaxEntries
                                     THEN <<EntryId(k - MaxEntries)>> ELSE <<>>]]
       /\ stored = writeYadasmith(LeveledPlan(total, completed))
  /\ pc = "idle"
  /\ graph = None
  /\ cycleCheck = None
  /\ result = None
  /\ prevResult = None
  /\ clock = 1
  /\ lastOp = None
  /\ before = None
  /\ opResult = None
  /\ edited = FALSE
  /\ procs = None
  /\ leveling = None
  /\ cwd = InRoot

SpecLarge == InitLarge /\ [][NextStatus]_vars

\* percentComplete of the plan with one completed Entry fewer
PercentBelow ==
  getStatus(writeYadasmith(LeveledPlan(opResult.total, opResult.completed - 1)))
    .percentComplete

(***************************************************************************)
(* C40, as stated: on a stored plan with total > 0, percentComplete is in  *)
(* 0..100, does not decrease when one more Entry is completed, and is 100  *)
(* only when every Entry is completed and nextTask is absent.              *)
(***************************************************************************)
C40_HundredOnlyWhenAllCompleted ==
  (Called("getStatus") /\ opResult.total > 0) =>
    /\ opResult.percentComplete \in 0..100
    /\ opResult.completed > 0 => PercentBelow <= opResult.percentComplete
    /\ opResult.percentComplete = 100 =>
         /\ opResult.completed = opResult.total
         /\ opResult.nextTask = None

(***************************************************************************)
(* C40, amended: percentComplete is in 0..100 and does not decrease when   *)
(* one more Entry is completed; it is 100 exactly when at least 99.5       *)
(* percent of the Entries are completed, which means every Entry only in   *)
(* plans of fewer than 200 Entries.                                        *)
(***************************************************************************)
C40_HundredFromHalfPercentBelow ==
  (Called("getStatus") /\ opResult.total > 0) =>
    /\ opResult.percentComplete \in 0..100
    /\ opResult.completed > 0 => PercentBelow <= opResult.percentComplete
    /\ (opResult.percentComplete = 100)
         <=> (200 * opResult.completed >= 199 * opResult.total)
    /\ (opResult.percentComplete = 100 /\ opResult.total < 200) =>
         /\ opResult.completed = opResult.total
         /\ opResult.nextTask = None
    /\ (opResult.nextTask = None) <=> (opResult.completed = opResult.total)

\* 199 of 200 Entries completed: 100 percent with a next task
C40_Witness ==
  /\ Called("getStatus")
  /\ opResult.total = 200
  /\ opResult.completed = 199
  /\ opResult.percentComplete = 100
  /\ opResult.nextTask # None
  /\ PercentBelow = 99


====
